---- MODULE Spec2Model ----
(***************************************************************************)
(* nigiri: commit-addressed build artifact store.                          *)
(*                                                                         *)
(* Strings of the Go code are modelled as sequences of one-character       *)
(* strings, so that len(), s[:7] and strings.HasPrefix are computed as the *)
(* code computes them.                                                     *)
(***************************************************************************)
EXTENDS Integers, Sequences, FiniteSets, TLC

VARIABLES
  commit,  \* the Commit value a caller of pkg/commits holds
  fs,      \* the directories under nigiriRoot
  now,     \* the clock, in days
  last,    \* the last call: its name, its arguments and what it returned
  procs    \* the build invocations that run step by step, each with its
           \* position in executeBuild

vars == <<commit, fs, now, last, procs>>

\* the nil error
Nil == "nil"

\* no build invocation is under way
NoProcs == <<>>

\* minimum hash length and short-hash length (the literal 7 of the code)
ShortHashLen == 7

(***************************************************************************)
(* Strings used as inputs                                                  *)
(***************************************************************************)
Empty == <<>>
Abc == <<"a","b","c">>
Abc1 == <<"a","b","c","1">>
Abc12 == <<"a","b","c","1","2">>
Abc123 == <<"a","b","c","1","2","3">>
Abc1234 == <<"a","b","c","1","2","3","4">>
Abc1234d == <<"a","b","c","1","2","3","4","d">>
Abc1234e == <<"a","b","c","1","2","3","4","e">>
Abc5678 == <<"a","b","c","5","6","7","8">>
Abc5678f == <<"a","b","c","5","6","7","8","f">>
Def9012 == <<"d","e","f","9","0","1","2">>

\* values of Commit.Hash and Commit.ShortHash a caller may construct
HashInputs == {Empty, Abc123, Abc1234, Abc1234d, Abc5678f, Def9012}
ShortInputs == {Empty, Abc123, Abc1234, Abc5678, Abc1234d}

\* s[:n] of Go, for n <= len(s)
Prefix(s, n) == SubSeq(s, 1, n)

\* strings.HasPrefix(s, p)
HasPrefix(s, p) == Len(p) <= Len(s) /\ SubSeq(s, 1, Len(p)) = p

(***************************************************************************)
(* The filesystem under nigiriRoot.  fs.roots is the set of target root    *)
(* directories; fs.arts[t] maps the name of every child directory of the   *)
(* root of t to what it holds:                                             *)
(*   mtime     modification time of the directory (changes when a direct   *)
(*             child is created or removed)                                *)
(*   entries   its direct children                                         *)
(*   src       the tree in src: the revision checked out and the paths of  *)
(*             interest present in it (NoTree when there is no src)        *)
(*   tar       the tree packed in source.tar.gz                            *)
(*   spill     the paths an extraction of source.tar.gz wrote into the     *)
(*             directory itself                                            *)
(***************************************************************************)
TargetNames == {"t1", "t2", "t3", "t4", "t5"}

EntryNames == {"logs", "src", "source.tar.gz", "bin", "build-info.txt", "extracted"}

NoTree == [rev |-> <<>>, files |-> {}]

NoDirs == [n \in {} |-> 0]

EmptyFs == [roots |-> {}, arts |-> [t \in TargetNames |-> NoDirs]]

EmptyDir(clock) ==
  [mtime |-> clock, entries |-> {}, src |-> NoTree, tar |-> NoTree, spill |-> {}]

(***************************************************************************)
(* pkg/commits                                                             *)
(***************************************************************************)
Commit(h, s) == [Hash |-> h, ShortHash |-> s]

\* Validate without its two ShortHash checks
ValidateHashOnly(c) ==
  IF c.Hash = Empty THEN "hash is empty"
  ELSE IF Len(c.Hash) < ShortHashLen THEN "hash is too short"
  ELSE Nil

\* Commit.Validate: the returned error (Nil when the commit is accepted)
Validate(c) ==
  IF c.Hash = Empty THEN "hash is empty"
  ELSE IF Len(c.Hash) < ShortHashLen THEN "hash is too short"
  ELSE IF c.ShortHash = Empty THEN "short hash is empty"
  ELSE IF Len(c.ShortHash) < ShortHashLen THEN "short hash is too short"
  ELSE Nil

\* CalculateShortHash cutting one character short (c.Hash[:6])
CalculateShortHashOffByOne(c) ==
  IF Len(c.Hash) < ShortHashLen
  THEN [err |-> "hash is too short", c |-> c]
  ELSE [err |-> Nil, c |-> [c EXCEPT !.ShortHash = Prefix(c.Hash, ShortHashLen - 1)]]

\* Commit.CalculateShortHash: the returned error and the receiver afterwards
CalculateShortHash(c) ==
  IF Len(c.Hash) < ShortHashLen
  THEN [err |-> "hash is too short", c |-> c]
  ELSE [err |-> Nil, c |-> [c EXCEPT !.ShortHash = Prefix(c.Hash, ShortHashLen)]]

\* a caller builds a Commit value
NewCommit ==
  \E h \in HashInputs, s \in ShortInputs :
    /\ commit' = Commit(h, s)
    /\ last' = [op |-> "NewCommit"]
    /\ UNCHANGED <<fs, now, procs>>

\* c.Validate() on the current value
CallValidate ==
  /\ commit' = commit
  /\ last' = [op |-> "Validate", recv |-> commit, err |-> Validate(commit)]
  /\ UNCHANGED <<fs, now, procs>>

\* c.CalculateShortHash() on the current value
CallCalculateShortHash ==
  LET r == CalculateShortHash(commit) IN
  /\ commit' = r.c
  /\ last' = [op |-> "CalculateShortHash", recv |-> commit, err |-> r.err]
  /\ UNCHANGED <<fs, now, procs>>

InitCommit ==
  /\ commit \in {Commit(h, s) : h \in HashInputs, s \in ShortInputs}
  /\ fs = EmptyFs
  /\ now = 0
  /\ last = [op |-> "init"]
  /\ procs = NoProcs

NextCommit == NewCommit \/ CallValidate \/ CallCalculateShortHash

SpecCommit == InitCommit /\ [][NextCommit]_vars

(***************************************************************************)
(* Claims about pkg/commits (checked under SpecCommit)                     *)
(***************************************************************************)

\* C1: Validate returns an error if and only if Hash is empty, Hash has fewer
\* than 7 characters, ShortHash is empty, or ShortHash has fewer than 7
\* characters; and the commit after the call is the commit before it.
C1_ValidateIff ==
  last.op = "Validate" =>
    /\ (last.err # Nil) <=>
         \/ last.recv.Hash = <<>>
         \/ Len(last.recv.Hash) < 7
         \/ last.recv.ShortHash = <<>>
         \/ Len(last.recv.ShortHash) < 7
    /\ commit = last.recv

\* C1 witness: Validate rejected a commit whose Hash is fine and whose
\* ShortHash has 6 characters.
C1_Witness ==
  /\ last.op = "Validate"
  /\ last.err # Nil
  /\ Len(commit.Hash) >= 7
  /\ Len(commit.ShortHash) = 6

\* C2 (as claimed): every commit Validate accepts has ShortHash = Hash[0:7].
C2_ValidImpliesShortIsPrefix ==
  (last.op = "Validate" /\ last.err = Nil) =>
    commit.ShortHash = Prefix(commit.Hash, 7)

\* C3: CalculateShortHash sets ShortHash to Hash[0:7] (and nothing else) when
\* Hash has at least 7 characters, otherwise returns an error and leaves the
\* commit unchanged; a commit on which it succeeded passes Validate.
C3_CalculateShortHash ==
  last.op = "CalculateShortHash" =>
    /\ Len(last.recv.Hash) >= 7 =>
         /\ last.err = Nil
         /\ commit.Hash = last.recv.Hash
         /\ commit.ShortHash = SubSeq(last.recv.Hash, 1, 7)
    /\ Len(last.recv.Hash) < 7 =>
         /\ last.err # Nil
         /\ commit = last.recv
    /\ last.err = Nil => Validate(commit) = Nil

\* C3 witness: CalculateShortHash succeeded on a commit whose ShortHash was
\* not yet the prefix of its Hash, and changed it.
C3_Witness ==
  /\ last.op = "CalculateShortHash"
  /\ last.err = Nil
  /\ last.recv.ShortHash # commit.ShortHash
  /\ Len(commit.Hash) > 7

\* the names of the child directories of the root of t
DirNames(f, t) == DOMAIN f.arts[t]

\* dirutils.Exists(filepath.Join(nigiriRoot, t))
ExistsRoot(f, t) == t \in f.roots

\* dirutils.Exists(filepath.Join(targetRoot, name)); Join drops an empty name
ExistsIn(f, t, name) ==
  IF name = Empty THEN ExistsRoot(f, t)
  ELSE ExistsRoot(f, t) /\ name \in DirNames(f, t)

\* os.MkdirAll(filepath.Join(targetRoot, name)) succeeding at time clock
MkdirAll(f, clock, t, name) ==
  IF ExistsIn(f, t, name) THEN f
  ELSE IF name = Empty THEN [f EXCEPT !.roots = @ \cup {t}]
  ELSE [roots |-> f.roots \cup {t},
        arts |-> [f.arts EXCEPT ![t] = (name :> EmptyDir(clock)) @@ @]]

\* os.RemoveAll(filepath.Join(targetRoot, name)) succeeding
RemoveDir(f, t, name) ==
  [f EXCEPT !.arts[t] = [n \in DOMAIN @ \ {name} |-> @[n]]]

(***************************************************************************)
(* internal/targets (pkg/fsutils holds the same code)                      *)
(***************************************************************************)
AlreadyExists == "commit directory already exists"

\* Target.GetTargetRootDir: the error
GetTargetRootDir(f, t) ==
  IF ~ExistsRoot(f, t) THEN "target root does not exist" ELSE Nil

\* Target.CreateTargetRootDirIfNotExist: the error and the filesystem after
CreateTargetRootDirIfNotExist(f, t, mkdirOk) ==
  IF ~ExistsRoot(f, t)
  THEN IF mkdirOk THEN [err |-> Nil, fs |-> [f EXCEPT !.roots = @ \cup {t}]]
       ELSE [err |-> "mkdir", fs |-> f]
  ELSE [err |-> Nil, fs |-> f]

\* the existence test that counts a commit directory only when a build wrote
\* its build-info.txt
IsExistBuiltCommitDir(f, t, c) ==
  /\ ExistsIn(f, t, c.ShortHash)
  /\ "build-info.txt" \in f.arts[t][c.ShortHash].entries

\* IsExistTargetCommitDir
IsExistTargetCommitDir(f, t, c) == ExistsIn(f, t, c.ShortHash)

\* CreateTargetCommitDir without the existence check
CreateTargetCommitDirNoCheck(f, clock, t, c, mkdirOk) ==
  IF Validate(c) # Nil THEN [err |-> Validate(c), fs |-> f, path |-> <<>>]
  ELSE IF ~mkdirOk THEN [err |-> "mkdir", fs |-> f, path |-> <<>>]
  ELSE [err |-> Nil, fs |-> MkdirAll(f, clock, t, c.ShortHash),
        path |-> <<t, c.ShortHash>>]

\* CreateTargetCommitDir: the error, the filesystem after and the path returned
CreateTargetCommitDir(f, clock, t, c, mkdirOk) ==
  IF Validate(c) # Nil THEN [err |-> Validate(c), fs |-> f, path |-> <<>>]
  ELSE IF ExistsIn(f, t, c.ShortHash)
  THEN [err |-> AlreadyExists, fs |-> f, path |-> <<>>]
  ELSE IF ~mkdirOk THEN [err |-> "mkdir", fs |-> f, path |-> <<>>]
  ELSE [err |-> Nil, fs |-> MkdirAll(f, clock, t, c.ShortHash),
        path |-> <<t, c.ShortHash>>]

\* GetTargetCommitDir: the error and the path returned
GetTargetCommitDir(f, t, c) ==
  IF Validate(c) # Nil THEN [err |-> Validate(c), path |-> <<>>]
  ELSE IF ~ExistsIn(f, t, c.ShortHash)
  THEN [err |-> "commit directory does not exist", path |-> <<>>]
  ELSE [err |-> Nil, path |-> <<t, c.ShortHash>>]

(***************************************************************************)
(* Directory listings                                                      *)
(***************************************************************************)
Alphabet ==
  <<"0","1","2","3","4","5","6","7","8","9","a","b","c","d","e","f">>

\* byte order of the characters used in names
Rank(ch) == CHOOSE i \in 1..Len(Alphabet) : Alphabet[i] = ch

\* x < y for Go strings
RECURSIVE LexLess(_, _)
LexLess(x, y) ==
  IF y = <<>> THEN FALSE
  ELSE IF x = <<>> THEN TRUE
  ELSE IF Head(x) = Head(y) THEN LexLess(Tail(x), Tail(y))
  ELSE Rank(Head(x)) < Rank(Head(y))

\* the names of S in the order os.ReadDir returns them (sorted by filename)
RECURSIVE SortedNames(_)
SortedNames(S) ==
  IF S = {} THEN <<>>
  ELSE LET m == CHOOSE x \in S : \A y \in S \ {x} : LexLess(x, y)
       IN <<m>> \o SortedNames(S \ {m})

\* os.ReadDir(targetRootDir), directories only
ReadDir(f, t) == SortedNames(DirNames(f, t))

(***************************************************************************)
(* Configuration (read-only input of the commands)                         *)
(***************************************************************************)
ConfigTargets == {"t1", "t2", "t4", "t5"}

\* paths inside a source tree that the commands look at
SubDir == "sub"
BinPathT2 == "out/app"
TreePaths == {SubDir, BinPathT2, "target", "bin/target", "build/target"}

Config ==
  [t \in ConfigTargets |->
     IF t = "t1"
     THEN [WorkingDirectory |-> "", BinaryOnly |-> FALSE, BinaryPath |-> "",
           Cmd |-> "make"]
     ELSE IF t = "t2"
     THEN [WorkingDirectory |-> SubDir, BinaryOnly |-> TRUE,
           BinaryPath |-> BinPathT2, Cmd |-> "make"]
     ELSE IF t = "t4"
     THEN [WorkingDirectory |-> "", BinaryOnly |-> TRUE, BinaryPath |-> "",
           Cmd |-> "make"]
     ELSE [WorkingDirectory |-> "", BinaryOnly |-> FALSE, BinaryPath |-> "",
           Cmd |-> ""]]

(***************************************************************************)
(* Changes of one artifact directory                                       *)
(***************************************************************************)
\* create the direct child e at time clock
AddEntry(a, clock, e) ==
  IF e \in a.entries THEN a
  ELSE [a EXCEPT !.entries = @ \cup {e}, !.mtime = clock]

\* os.RemoveAll of the direct child e at time clock
DelEntry(a, clock, e) ==
  IF e \notin a.entries THEN a
  ELSE [a EXCEPT !.entries = @ \ {e}, !.mtime = clock]

\* os.RemoveAll(<artifact>/src)
RemoveSrc(a, clock) == [DelEntry(a, clock, "src") EXCEPT !.src = NoTree]

(***************************************************************************)
(* build                                                                   *)
(*                                                                         *)
(* The environment of one invocation is a record e:                        *)
(*   head       the hash GetDefaultBranchRemoteHead returns (HeadFail when *)
(*              the lookup fails)                                          *)
(*   cloneHead  the revision git.Clone checks out (the remote HEAD then)   *)
(*   tree       the paths of interest in the cloned tree                   *)
(*   out        the paths the build command adds to the tree               *)
(*   fail       the steps that fail, among FailSteps                       *)
(***************************************************************************)
HeadFail == <<"!">>

FailSteps ==
  {"token", "clone", "checkout", "exit", "meta", "copy", "compress", "rmsrc"}

\* part_003 383-385: the error of a failed build command names the build log
BuildFailed == "build failed, see build log at <commitDir>/logs/build.log"

\* the final status that reports success whatever the exit status
FinalStatusAlwaysOk(buildOk) == Nil

\* part_003 382-389: the final status from the build command's exit status
FinalStatus(buildOk) == IF buildOk THEN Nil ELSE BuildFailed

\* the steps after the build command, whose failures are only warned about
PostSteps == {"meta", "copy", "compress", "rmsrc"}

\* the status when a failed step after the build command is an error
WarnedFatal(status, failures) ==
  IF status = Nil /\ failures # {} THEN "post-build step failed" ELSE status

\* part_003 313-379: logger.Warnf for the failures of the steps after the
\* build command; the status of the build is not touched
Warned(status, failures) == status

\* part_009 86-94: the depth git.Clone hands to PlainClone, where 0 means the
\* full history
CloneDepth(depth) == IF depth > 0 THEN depth ELSE 1

\* the return that takes the log directory away when the pipeline failed
BuildRetRollback(err, a, cloned, ran) ==
  [err |-> err,
   art |-> IF err = Nil THEN a ELSE [a EXCEPT !.entries = @ \ {"logs"}],
   cloned |-> cloned, ran |-> ran]

\* what the pipeline returns: the error, the artifact directory as it is left,
\* and whether git.Clone was called and the build command was executed
BuildRet(err, a, cloned, ran) ==
  [err |-> err, art |-> a, cloned |-> cloned, ran |-> ran]

\* the metadata file written only after a build command that exited with 0
WriteMetadataOnSuccess(a, clock, buildOk, e) ==
  IF "meta" \in e.fail \/ ~buildOk THEN a
  ELSE AddEntry(a, clock, "build-info.txt")

\* part_003 311-340: os.Create(<commitDir>/build-info.txt) right after
\* execCmd.Run, before and whatever the exit status; a failure to create the
\* file is passed over
WriteMetadata(a, clock, buildOk, e) ==
  IF "meta" \in e.fail THEN a
  ELSE AddEntry(a, clock, "build-info.txt")

\* executeBuild from the log directory on (part_003 216-389), on the artifact
\* directory a of commit c
Pipeline(a, clock, cfg, ref, depth, e) ==
  LET a1 == AddEntry(a, clock, "logs")
      a2 == AddEntry(a1, clock, "src")
      a3 == [a2 EXCEPT !.src = [rev |-> e.cloneHead, files |-> e.tree]]
      doCheckout == ref # Empty /\ depth # 1
      a4 == IF doCheckout THEN [a3 EXCEPT !.src.rev = ref] ELSE a3
      buildOk == "exit" \notin e.fail
      a5 == [a4 EXCEPT !.src.files = @ \cup e.out]
      a6 == WriteMetadata(a5, clock, buildOk, e)
      copied == /\ buildOk
                /\ cfg.BinaryPath # ""
                /\ cfg.BinaryPath \in a6.src.files
                /\ "bin/target" \notin a6.spill
                /\ "copy" \notin e.fail
      a7 == IF copied THEN AddEntry(a6, clock, "bin") ELSE a6
      a8 == IF cfg.BinaryOnly
            THEN IF "rmsrc" \in e.fail THEN a7 ELSE RemoveSrc(a7, clock)
            ELSE IF "compress" \in e.fail
                 THEN [AddEntry(a7, clock, "source.tar.gz") EXCEPT
                         !.tar = [rev |-> a7.src.rev, files |-> {}]]
                 ELSE LET packed == [AddEntry(a7, clock, "source.tar.gz") EXCEPT
                                       !.tar = a7.src]
                      IN IF "rmsrc" \in e.fail THEN packed
                         ELSE RemoveSrc(packed, clock)
  IN
  IF "token" \in e.fail
    THEN BuildRet("failed to clone repository", a1, TRUE, FALSE)
  ELSE IF "clone" \in e.fail
    THEN BuildRet("failed to clone repository", a2, TRUE, FALSE)
  ELSE IF doCheckout /\ "checkout" \in e.fail
    THEN BuildRet("failed to checkout commit", a3, TRUE, FALSE)
  ELSE IF cfg.WorkingDirectory # "" /\ cfg.WorkingDirectory \notin a4.src.files
    THEN BuildRet("working directory not found in source", a4, TRUE, FALSE)
  ELSE IF cfg.Cmd = ""
    THEN BuildRet("no build command specified for OS", a4, TRUE, FALSE)
  ELSE BuildRet(Warned(FinalStatus(buildOk), e.fail \cap PostSteps), a8,
                TRUE, TRUE)

\* the force rebuild that empties the whole commit directory
CleanForRebuildAll(a, clock) == EmptyDir(clock)

\* part_003 184-191: the force rebuild reuses the commit directory after
\* os.RemoveAll(<commitDir>/src)
CleanForRebuild(a, clock) == RemoveSrc(a, clock)

\* what executeBuild returns, and what it did
\*   short    the short hash it resolved (Empty when it did not get that far)
\*   existed  the commit directory was there when it looked
\*   skipped  it reported "already built"
\*   cloned   it called git.Clone
\*   ran      it executed the build command
BuildResult(err, f, short, existed, skipped, cloned, ran) ==
  [err |-> err, fs |-> f, short |-> short, existed |-> existed,
   skipped |-> skipped, cloned |-> cloned, ran |-> ran]

\* executeBuild that never looks whether the commit was already built
ExecuteBuildNoSkip(f, clock, t, ref, force, depth, e) ==
  IF t \notin ConfigTargets
  THEN BuildResult("target not found in configuration", f, Empty,
                   FALSE, FALSE, FALSE, FALSE)
  ELSE
  LET f1 == CreateTargetRootDirIfNotExist(f, t, TRUE).fs
      hc == CalculateShortHash(Commit(IF ref = Empty THEN e.head ELSE ref, Empty))
      c == hc.c
      existed == IsExistTargetCommitDir(f1, t, c)
      a0 == IF existed THEN CleanForRebuild(f1.arts[t][c.ShortHash], clock)
            ELSE EmptyDir(clock)
      p == Pipeline(a0, clock, Config[t], ref, depth, e)
      f2 == [f1 EXCEPT !.arts[t] = (c.ShortHash :> p.art) @@ @]
  IN
  IF ref = Empty /\ e.head = HeadFail
    THEN BuildResult("failed to get HEAD of branch", f1, Empty,
                     FALSE, FALSE, FALSE, FALSE)
  ELSE IF hc.err # Nil
    THEN BuildResult("failed to calculate short hash", f1, Empty,
                     FALSE, FALSE, FALSE, FALSE)
  ELSE BuildResult(p.err, f2, c.ShortHash, existed, FALSE, p.cloned, p.ran)

\* buildCommand.executeBuild(target) with c.commit = ref, c.forceBuild = force,
\* c.depth = depth, in environment e at time clock
ExecuteBuild(f, clock, t, ref, force, depth, e) ==
  IF t \notin ConfigTargets
  THEN BuildResult("target not found in configuration", f, Empty,
                   FALSE, FALSE, FALSE, FALSE)
  ELSE
  LET f1 == CreateTargetRootDirIfNotExist(f, t, TRUE).fs
      hc == CalculateShortHash(Commit(IF ref = Empty THEN e.head ELSE ref, Empty))
      c == hc.c
      existed == IsExistTargetCommitDir(f1, t, c)
      \* force rebuild reuses the directory and removes src; otherwise the
      \* directory is created
      made == CreateTargetCommitDir(f1, clock, t, c, TRUE)
      a0 == IF existed THEN CleanForRebuild(f1.arts[t][c.ShortHash], clock)
            ELSE made.fs.arts[t][c.ShortHash]
      p == Pipeline(a0, clock, Config[t], ref, depth, e)
      f2 == [f1 EXCEPT !.arts[t] = (c.ShortHash :> p.art) @@ @]
  IN
  IF ref = Empty /\ e.head = HeadFail
    THEN BuildResult("failed to get HEAD of branch", f1, Empty,
                     FALSE, FALSE, FALSE, FALSE)
  ELSE IF hc.err # Nil
    THEN BuildResult("failed to calculate short hash", f1, Empty,
                     FALSE, FALSE, FALSE, FALSE)
  ELSE IF Validate(c) # Nil
    THEN BuildResult("invalid commit", f1, Empty, FALSE, FALSE, FALSE, FALSE)
  ELSE IF existed /\ ~force
    THEN BuildResult(Nil, f1, c.ShortHash, TRUE, TRUE, FALSE, FALSE)
  ELSE IF ~existed /\ made.err # Nil
    THEN BuildResult("failed to create commit directory", f1, c.ShortHash,
                     FALSE, FALSE, FALSE, FALSE)
  ELSE BuildResult(p.err, f2, c.ShortHash, existed, FALSE, p.cloned, p.ran)

\* nigiri build t [ref] [--force] [--depth depth]
Build(t, ref, force, depth, e) ==
  \E r \in {ExecuteBuild(fs, now, t, ref, force, depth, e)} :
  /\ fs' = r.fs
  /\ last' = [op |-> "build", t |-> t, ref |-> ref, force |-> force,
              depth |-> depth, err |-> r.err, short |-> r.short,
              existed |-> r.existed, skipped |-> r.skipped,
              cloned |-> r.cloned, ran |-> r.ran,
              exit |-> IF r.ran /\ "exit" \in e.fail THEN 1 ELSE 0,
              postFail |-> IF r.ran THEN e.fail \cap PostSteps ELSE {},
              remote |-> e.head,
              cloneDepth |-> IF r.cloned THEN CloneDepth(depth) ELSE 0]
  /\ UNCHANGED <<commit, now, procs>>

(***************************************************************************)
(* run                                                                     *)
(***************************************************************************)
LowerCase == <<"a","b","c","d","e","f","g","h","i","j","k","l","m",
               "n","o","p","q","r","s","t","u","v","w","x","y","z">>
UpperCase == <<"A","B","C","D","E","F","G","H","I","J","K","L","M",
               "N","O","P","Q","R","S","T","U","V","W","X","Y","Z">>

\* a comparison of the token as typed
ToUpperIdentity(s) == s

\* strings.ToUpper
ToUpper(s) ==
  [i \in 1..Len(s) |->
     IF \E k \in 1..Len(LowerCase) : LowerCase[k] = s[i]
     THEN UpperCase[CHOOSE k \in 1..Len(LowerCase) : LowerCase[k] = s[i]]
     ELSE s[i]]

HEAD == <<"H","E","A","D">>

\* the loop of part_001 217-228 over names[i..], latest = Empty for none yet
RECURSIVE ScanLatest(_, _, _, _)
ScanLatest(dirs, names, i, latest) ==
  IF i > Len(names) THEN latest
  ELSE ScanLatest(dirs, names, i + 1,
         IF latest = Empty \/ dirs[names[i]].mtime > dirs[latest].mtime
         THEN names[i] ELSE latest)

\* the first build directory the listing of t names
LatestDirFirst(f, t) ==
  IF ReadDir(f, t) = <<>> THEN Empty ELSE ReadDir(f, t)[1]

\* the most recently modified build directory of t (Empty when there is none)
LatestDir(f, t) == ScanLatest(f.arts[t], ReadDir(f, t), 1, Empty)

\* the loop of part_001 249-254: the first name that starts with sel
RECURSIVE FirstMatch(_, _, _)
FirstMatch(names, i, sel) ==
  IF i > Len(names) THEN Empty
  ELSE IF HasPrefix(names[i], sel) THEN names[i]
  ELSE FirstMatch(names, i + 1, sel)

\* the directory executeRun resolves: the error and the name
ResolveRunDir(f, t, sel) ==
  IF GetTargetRootDir(f, t) # Nil
    THEN [err |-> GetTargetRootDir(f, t), dir |-> Empty]
  ELSE IF sel = Empty
    THEN IF LatestDir(f, t) = Empty
         THEN [err |-> "no builds found for target", dir |-> Empty]
         ELSE [err |-> Nil, dir |-> LatestDir(f, t)]
  ELSE IF Len(sel) < ShortHashLen
    THEN [err |-> "commit hash is too short", dir |-> Empty]
  ELSE IF FirstMatch(ReadDir(f, t), 1, sel) = Empty
    THEN [err |-> "no build found for commit", dir |-> Empty]
  ELSE [err |-> Nil, dir |-> FirstMatch(ReadDir(f, t), 1, sel)]

\* extractTarGz(<artifact>/source.tar.gz, <artifact>): the archive's paths are
\* relative to src, so they are written into the artifact directory itself
Extract(a, clock) ==
  LET a1 == [AddEntry(a, clock, "extracted") EXCEPT !.spill = @ \cup a.tar.files]
  IN IF "bin/target" \in a.tar.files THEN AddEntry(a1, clock, "bin") ELSE a1

\* part_001 306-326: the path of the binary inside workDir
SourceBinary(cfg, files) ==
  IF cfg.BinaryPath # "" THEN cfg.BinaryPath
  ELSE IF "target" \in files THEN "target"
  ELSE IF "bin/target" \in files THEN "bin/target"
  ELSE IF "build/target" \in files THEN "build/target"
  ELSE "target"

\* main (part_011 54-59): any error of Execute ends the process with status 1
ExitCode(err) == IF err = Nil THEN 0 ELSE 1

RunResult(err, f, dir, bin, launched) ==
  [err |-> err, fs |-> f, dir |-> dir, bin |-> bin, launched |-> launched]

\* runCommand.executeRun(target, commitHash, args) in environment e:
\*   e.extractOk  extractTarGz succeeds
\*   e.exit       the exit status of the launched binary
ExecuteRun(f, clock, t, sel, e) ==
  LET rd == ResolveRunDir(f, t, sel)
      a == f.arts[t][rd.dir]
      cfg == Config[t]
      needExtract == "source.tar.gz" \in a.entries /\ "src" \notin a.entries
      a1 == IF needExtract /\ e.extractOk THEN Extract(a, clock) ELSE a
      f1 == [f EXCEPT !.arts[t][rd.dir] = a1]
      bin == SourceBinary(cfg, a1.src.files)
      status == IF e.exit = 0 THEN Nil ELSE "exit status"
  IN
  IF rd.err # Nil THEN RunResult(rd.err, f, Empty, "", FALSE)
  ELSE IF t \notin ConfigTargets
    THEN RunResult("target not found in configuration", f, rd.dir, "", FALSE)
  ELSE IF "bin" \in a.entries
    THEN IF "bin/target" \in a.spill
         THEN RunResult("exec: is a directory", f, rd.dir, "bin", FALSE)
         ELSE RunResult(status, f, rd.dir, "bin", TRUE)
  ELSE IF needExtract /\ ~e.extractOk
    THEN RunResult("failed to extract source archive", f, rd.dir, "", FALSE)
  ELSE IF "src" \notin a1.entries
    THEN RunResult("source directory not found", f1, rd.dir, "", FALSE)
  ELSE IF cfg.WorkingDirectory # "" /\ cfg.WorkingDirectory \notin a1.src.files
    THEN RunResult("working directory not found in source", f1, rd.dir, "", FALSE)
  ELSE IF bin \notin a1.src.files
    THEN RunResult("binary not found", f1, rd.dir, bin, FALSE)
  ELSE RunResult(status, f1, rd.dir, bin, TRUE)

\* nigiri run t [token]: RunE maps the HEAD alias to the empty selector
\* (part_001 111-118) and calls executeRun
Run(t, token, e) ==
  \E sel \in {IF ToUpper(token) = HEAD THEN Empty ELSE token} :
  \E r \in {ExecuteRun(fs, now, t, sel, e)} :
  /\ fs' = r.fs
  /\ last' = [op |-> "run", t |-> t, token |-> token, sel |-> sel,
              err |-> r.err, dir |-> r.dir, bin |-> r.bin,
              launched |-> r.launched,
              exit |-> IF r.launched THEN e.exit ELSE 0,
              code |-> ExitCode(r.err)]
  /\ UNCHANGED <<commit, now, procs>>

(***************************************************************************)
(* run: the argument vector                                                *)
(***************************************************************************)
T1 == <<"t","1">>
T2 == <<"t","2">>
Dash2 == <<"-","-">>
FlagV == <<"-","v">>
ArgX == <<"x">>

\* the target a first argument names; a token that names no built target
\* stands for t3, which has no root
TargetOf(tok) == IF tok = T1 THEN "t1" ELSE IF tok = T2 THEN "t2" ELSE "t3"

\* part_001 71-77: the index of the first "--" (0 when there is none)
DashIndex(args) ==
  IF \E i \in 1..Len(args) : args[i] = Dash2
  THEN CHOOSE i \in 1..Len(args) :
         /\ args[i] = Dash2
         /\ \A j \in 1..(i - 1) : args[j] # Dash2
  ELSE 0

ParseResult(help, target, commitHash, targetArgs) ==
  [help |-> help, target |-> target, commitHash |-> commitHash,
   targetArgs |-> targetArgs]

\* the parse that takes the second argument as the commit whatever it is
ParseRunArgsNoFlagTest(args) ==
  IF Len(args) < 1 THEN ParseResult(TRUE, Empty, Empty, <<>>)
  ELSE IF Len(args) = 1 THEN ParseResult(FALSE, args[1], Empty, <<>>)
  ELSE IF DashIndex(args) # 0
    THEN ParseResult(FALSE, args[1],
           IF DashIndex(args) > 2 THEN args[2] ELSE Empty,
           IF DashIndex(args) < Len(args)
           THEN SubSeq(args, DashIndex(args) + 1, Len(args)) ELSE <<>>)
  ELSE ParseResult(FALSE, args[1], args[2],
                   IF Len(args) > 2 THEN SubSeq(args, 3, Len(args)) ELSE <<>>)

\* part_001 58-108: target, commitHash and targetArgs from args
ParseRunArgs(args) ==
  IF Len(args) < 1 THEN ParseResult(TRUE, Empty, Empty, <<>>)
  ELSE IF Len(args) = 1 THEN ParseResult(FALSE, args[1], Empty, <<>>)
  ELSE IF DashIndex(args) # 0
    THEN ParseResult(FALSE, args[1],
           IF DashIndex(args) > 2 THEN args[2] ELSE Empty,
           IF DashIndex(args) < Len(args)
           THEN SubSeq(args, DashIndex(args) + 1, Len(args)) ELSE <<>>)
  ELSE IF HasPrefix(args[2], <<"-">>)
    THEN ParseResult(FALSE, args[1], Empty, SubSeq(args, 2, Len(args)))
  ELSE ParseResult(FALSE, args[1], args[2],
                   IF Len(args) > 2 THEN SubSeq(args, 3, Len(args)) ELSE <<>>)

\* nigiri run args...: RunE parses args, maps the HEAD alias to the empty
\* selector and calls executeRun, which hands targetArgs to exec.Command
RunCommand(args, e) ==
  \E p \in {ParseRunArgs(args)} :
  \E sel \in {IF ToUpper(p.commitHash) = HEAD THEN Empty ELSE p.commitHash} :
  \E r \in {IF p.help THEN RunResult(Nil, fs, Empty, "", FALSE)
            ELSE ExecuteRun(fs, now, TargetOf(p.target), sel, e)} :
  /\ fs' = r.fs
  /\ last' = [op |-> "runCommand", args |-> args, help |-> p.help,
              target |-> p.target, commitHash |-> p.commitHash,
              targetArgs |-> p.targetArgs, sel |-> sel, err |-> r.err,
              dir |-> r.dir, launched |-> r.launched,
              passed |-> IF r.launched THEN p.targetArgs ELSE <<>>,
              exit |-> IF r.launched THEN e.exit ELSE 0,
              code |-> ExitCode(r.err)]
  /\ UNCHANGED <<commit, now, procs>>

(***************************************************************************)
(* cleanup                                                                 *)
(*                                                                         *)
(* The clock counts days.  c is the cleanupCommand (maxBuilds, maxAge,     *)
(* dryRun, skipConfirm) and e the environment of one invocation:           *)
(*   answer  what fmt.Scanln delivers (ReadFail when it returns an error)  *)
(*   rmFail  the build directories os.RemoveAll fails to remove            *)
(*   readFail  the targets whose root os.ReadDir fails to read             *)
(***************************************************************************)
ReadFail == "<read error>"

Range(s) == {s[i] : i \in 1..Len(s)}

\* dirutils.GetDirEntries(<root of t>, ""): the listing without the names
\* that start with a dot; every entry of a target root is a directory
GetDirEntries(f, t) ==
  SelectSeq(ReadDir(f, t), LAMBDA n : ~HasPrefix(n, <<".">>))

\* dirutils.SortDirEntriesByTime(builds, true): sort.Slice is not stable, so
\* it may leave any order in which no entry is older than its successor
SortDirEntriesByTime(dirs, names) ==
  {p \in [1..Len(names) -> Range(names)] :
     /\ \A i, j \in 1..Len(names) : i # j => p[i] # p[j]
     /\ \A i \in 1..(Len(names) - 1) : dirs[p[i]].mtime >= dirs[p[i + 1]].mtime}

\* the count rule keeping one build too many
CountExcessOffByOne(sorted, maxBuilds) ==
  IF maxBuilds > 0 /\ Len(sorted) > maxBuilds
  THEN SubSeq(sorted, maxBuilds + 2, Len(sorted))
  ELSE <<>>

\* part_004 172-174: builds[maxBuilds:] of the list sorted newest first
CountExcess(sorted, maxBuilds) ==
  IF maxBuilds > 0 /\ Len(sorted) > maxBuilds
  THEN SubSeq(sorted, maxBuilds + 1, Len(sorted))
  ELSE <<>>

\* the age test that also evicts a build of exactly maxAge days
OverAgeInclusive(clock, mtime, maxAge) == clock - mtime >= maxAge

\* part_004 178, 191: now.Sub(build.ModTime) > maxAgeDuration
OverAge(clock, mtime, maxAge) == clock - mtime > maxAge

\* part_004 181-194: append the over-age builds that are not marked yet
RECURSIVE MarkByAge(_, _, _, _, _, _)
MarkByAge(dirs, sorted, i, marked, clock, maxAge) ==
  IF i > Len(sorted) THEN marked
  ELSE MarkByAge(dirs, sorted, i + 1,
         IF /\ sorted[i] \notin Range(marked)
            /\ OverAge(clock, dirs[sorted[i]].mtime, maxAge)
         THEN Append(marked, sorted[i]) ELSE marked,
         clock, maxAge)

\* part_004 169-195: buildsToRemove
BuildsToRemove(dirs, sorted, clock, c) ==
  IF c.maxAge > 0
  THEN MarkByAge(dirs, sorted, 1, CountExcess(sorted, c.maxBuilds), clock, c.maxAge)
  ELSE CountExcess(sorted, c.maxBuilds)

\* the gate that asks for confirmation in a dry run too
ConfirmIgnoringDryRun(c, answer) ==
  IF c.skipConfirm THEN [go |-> TRUE, asked |-> FALSE, err |-> Nil]
  ELSE IF answer = ReadFail
    THEN [go |-> FALSE, asked |-> TRUE, err |-> "failed to read confirmation"]
  ELSE IF answer # "y" /\ answer # "Y"
    THEN [go |-> FALSE, asked |-> TRUE, err |-> Nil]
  ELSE [go |-> TRUE, asked |-> TRUE, err |-> Nil]

\* the gate that drops the error of fmt.Scanln and goes on
ConfirmIgnoringReadError(c, answer) ==
  IF c.dryRun THEN [go |-> FALSE, asked |-> FALSE, err |-> Nil]
  ELSE IF c.skipConfirm THEN [go |-> TRUE, asked |-> FALSE, err |-> Nil]
  ELSE IF answer # "y" /\ answer # "Y" /\ answer # ReadFail
    THEN [go |-> FALSE, asked |-> TRUE, err |-> Nil]
  ELSE [go |-> TRUE, asked |-> TRUE, err |-> Nil]

\* part_004 220-236: the dry-run return and the confirmation prompt
Confirm(c, answer) ==
  IF c.dryRun THEN [go |-> FALSE, asked |-> FALSE, err |-> Nil]
  ELSE IF c.skipConfirm THEN [go |-> TRUE, asked |-> FALSE, err |-> Nil]
  ELSE IF answer = ReadFail
    THEN [go |-> FALSE, asked |-> TRUE, err |-> "failed to read confirmation"]
  ELSE IF answer # "y" /\ answer # "Y"
    THEN [go |-> FALSE, asked |-> TRUE, err |-> Nil]
  ELSE [go |-> TRUE, asked |-> TRUE, err |-> Nil]

\* the count that goes up for every removal attempted
RECURSIVE RemovedCountAttempts(_, _, _)
RemovedCountAttempts(marked, i, fail) ==
  IF i > Len(marked) THEN 0
  ELSE 1 + RemovedCountAttempts(marked, i + 1, fail)

\* part_004 239-247, remove_test.go 268-278: removedCount, which goes up only
\* after an os.RemoveAll that returned no error
RECURSIVE RemovedCount(_, _, _)
RemovedCount(marked, i, fail) ==
  IF i > Len(marked) THEN 0
  ELSE (IF marked[i] \in fail THEN 0 ELSE 1) +
       RemovedCount(marked, i + 1, fail)

\* the removal loop that also removes a target root left without builds
RECURSIVE RemoveBuildsAndEmptyRoot(_, _, _, _, _)
RemoveBuildsAndEmptyRoot(f, t, marked, i, rmFail) ==
  IF i > Len(marked)
  THEN IF DirNames(f, t) = {} THEN [f EXCEPT !.roots = @ \ {t}] ELSE f
  ELSE RemoveBuildsAndEmptyRoot(IF marked[i] \in rmFail THEN f
                                ELSE RemoveDir(f, t, marked[i]),
                                t, marked, i + 1, rmFail)

\* part_004 240-247: os.RemoveAll of each marked build, failures skipped
RECURSIVE RemoveBuilds(_, _, _, _, _)
RemoveBuilds(f, t, marked, i, rmFail) ==
  IF i > Len(marked) THEN f
  ELSE RemoveBuilds(IF marked[i] \in rmFail THEN f
                    ELSE RemoveDir(f, t, marked[i]),
                    t, marked, i + 1, rmFail)

\* what executeCleanup returns, and what it did
\*   found   len(builds)
\*   marked  buildsToRemove
\*   asked   it read a confirmation
\*   failed  a removal failed
\*   removed removedCount, 0 until the removal loop counts
CleanupResult(err, f, found, marked, asked, failed) ==
  [err |-> err, fs |-> f, found |-> found, marked |-> marked,
   asked |-> asked, failed |-> failed, removed |-> 0]

\* cleanupCommand.executeCleanup(t) when the sort leaves the order sorted, a
\* permutation of builds
ExecuteCleanup(f, clock, c, t, e, sorted) ==
  LET marked == BuildsToRemove(f.arts[t], sorted, clock, c)
      cf == Confirm(c, e.answer)
  IN
  IF GetTargetRootDir(f, t) # Nil
    THEN CleanupResult("target not found", f, 0, <<>>, FALSE, FALSE)
  ELSE IF t \in e.readFail
    THEN CleanupResult("failed to read target directory", f, 0, <<>>, FALSE, FALSE)
  ELSE IF Len(sorted) = 0
    THEN CleanupResult(Nil, f, 0, <<>>, FALSE, FALSE)
  ELSE IF marked = <<>>
    THEN CleanupResult(Nil, f, Len(sorted), <<>>, FALSE, FALSE)
  ELSE IF ~cf.go
    THEN CleanupResult(cf.err, f, Len(sorted), marked, cf.asked, FALSE)
  ELSE [CleanupResult(Nil, RemoveBuilds(f, t, marked, 1, e.rmFail),
                      Len(sorted), marked, cf.asked,
                      Range(marked) \cap e.rmFail # {})
          EXCEPT !.removed = RemovedCount(marked, 1, e.rmFail)]

\* executeCleanup(t) over the orders the sort may leave
CleanupOutcomes(f, clock, c, t, e) ==
  UNION {{ExecuteCleanup(f, clock, c, t, e, sorted) :
            sorted \in SortDirEntriesByTime(f.arts[t], builds)} :
         builds \in {GetDirEntries(f, t)}}

\* os.ReadDir(nigiriRoot): the target roots in name order
TargetOrder == <<"t1", "t2", "t3", "t4", "t5">>

\* part_004 298-303: executeCleanup of each target in turn, errors only warned
\*   prompts  the confirmations read
\*   warned   the targets whose executeCleanup returned an error
RECURSIVE CleanupEach(_, _, _, _, _, _)
CleanupEach(f, clock, c, e, targets, i) ==
  IF i > Len(targets)
  THEN {[fs |-> f, nmarked |-> 0, asked |-> FALSE, failed |-> FALSE,
         prompts |-> 0, warned |-> {}]}
  ELSE UNION
    {{[fs |-> rest.fs, nmarked |-> Len(r.marked) + rest.nmarked,
       asked |-> r.asked \/ rest.asked, failed |-> r.failed \/ rest.failed,
       prompts |-> (IF r.asked THEN 1 ELSE 0) + rest.prompts,
       warned |-> (IF r.err # Nil THEN {targets[i]} ELSE {}) \cup rest.warned] :
        rest \in CleanupEach(r.fs, clock, c, e, targets, i + 1)} :
      r \in CleanupOutcomes(f, clock, c, targets[i], e)}

AllResult(err, f, nmarked, asked, failed, prompts, warned) ==
  [err |-> err, fs |-> f, nmarked |-> nmarked, asked |-> asked,
   failed |-> failed, prompts |-> prompts, warned |-> warned]

\* executeCleanupAll without line 294, c.skipConfirm = true
ExecuteCleanupAllAskEach(f, clock, c, e) ==
  LET targets == SelectSeq(TargetOrder, LAMBDA t : ExistsRoot(f, t)) IN
  IF targets = <<>> THEN {AllResult(Nil, f, 0, FALSE, FALSE, 0, {})}
  ELSE IF ~c.skipConfirm /\ ~c.dryRun
    THEN IF e.answer = ReadFail
           THEN {AllResult("failed to read confirmation", f, 0, TRUE, FALSE, 1, {})}
         ELSE IF e.answer # "y" /\ e.answer # "Y"
           THEN {AllResult(Nil, f, 0, TRUE, FALSE, 1, {})}
         ELSE {AllResult(Nil, r.fs, r.nmarked, TRUE, r.failed, 1 + r.prompts,
                         r.warned) :
                 r \in CleanupEach(f, clock, c, e, targets, 1)}
  ELSE {AllResult(Nil, r.fs, r.nmarked, r.asked, r.failed, r.prompts, r.warned) :
          r \in CleanupEach(f, clock, c, e, targets, 1)}

\* cleanupCommand.executeCleanupAll(): the results it may produce
ExecuteCleanupAll(f, clock, c, e) ==
  LET targets == SelectSeq(TargetOrder, LAMBDA t : ExistsRoot(f, t)) IN
  IF targets = <<>> THEN {AllResult(Nil, f, 0, FALSE, FALSE, 0, {})}
  ELSE IF ~c.skipConfirm /\ ~c.dryRun
    THEN IF e.answer = ReadFail
           THEN {AllResult("failed to read confirmation", f, 0, TRUE, FALSE, 1, {})}
         ELSE IF e.answer # "y" /\ e.answer # "Y"
           THEN {AllResult(Nil, f, 0, TRUE, FALSE, 1, {})}
         ELSE {AllResult(Nil, r.fs, r.nmarked, TRUE, r.failed, 1 + r.prompts,
                         r.warned) :
                 r \in CleanupEach(f, clock, [c EXCEPT !.skipConfirm = TRUE],
                                   e, targets, 1)}
  ELSE {AllResult(Nil, r.fs, r.nmarked, r.asked, r.failed, r.prompts, r.warned) :
          r \in CleanupEach(f, clock, c, e, targets, 1)}

\* the build directories of t have pairwise distinct modification times
DistinctTimes(f, t) ==
  \A m, n \in DirNames(f, t) : m # n => f.arts[t][m].mtime # f.arts[t][n].mtime

\* nigiri cleanup t [--max-builds] [--max-age] [--dry-run] [--yes]
Cleanup(t, c, e) ==
  \E r \in CleanupOutcomes(fs, now, c, t, e) :
  /\ fs' = r.fs
  /\ last' = [op |-> "cleanup", t |-> t, c |-> c, err |-> r.err,
              found |-> r.found, marked |-> r.marked, asked |-> r.asked,
              answer |-> IF r.asked THEN e.answer ELSE "",
              failed |-> r.failed, distinct |-> DistinctTimes(fs, t),
              removed |-> r.removed,
              stuck |-> IF r.failed THEN Range(r.marked) \cap e.rmFail ELSE {}]
  /\ UNCHANGED <<commit, now, procs>>

\* nigiri cleanup --all [--max-builds] [--max-age] [--dry-run] [--yes]
CleanupAll(c, e) ==
  \E r \in ExecuteCleanupAll(fs, now, c, e) :
  /\ fs' = r.fs
  /\ last' = [op |-> "cleanupAll", c |-> c, err |-> r.err,
              nmarked |-> r.nmarked, asked |-> r.asked,
              answer |-> IF r.asked THEN e.answer ELSE "",
              failed |-> r.failed, prompts |-> r.prompts,
              warned |-> r.warned, readFail |-> e.readFail]
  /\ UNCHANGED <<commit, now, procs>>

(***************************************************************************)
(* remove                                                                  *)
(*                                                                         *)
(* e is the environment of one invocation:                                 *)
(*   answer    what logger.ReadInput delivers (ReadFail when it fails)     *)
(*   rmFail    the build directories os.RemoveAll fails to remove          *)
(*   rootFail  the target roots os.RemoveAll fails to remove               *)
(***************************************************************************)
\* strings.ToLower on the answers of the environments
ToLowerAnswer(a) == IF a = "Y" THEN "y" ELSE a

\* os.RemoveAll(<root of t>) succeeding
RemoveRoot(f, t) ==
  [roots |-> f.roots \ {t}, arts |-> [f.arts EXCEPT ![t] = NoDirs]]

\* what the remove handlers return, and what they did
\*   matches  matchingDirs
\*   asked    a confirmation was read
\*   failed   a removal failed
\*   removed  removedCount of remove --all, 0 until its loop counts
RemoveResult(err, f, matches, asked, failed) ==
  [err |-> err, fs |-> f, matches |-> matches, asked |-> asked,
   failed |-> failed, removed |-> 0]

\* executeRemove without the test that the target root exists
ExecuteRemoveNoCheck(f, t, e) ==
  IF e.answer = ReadFail
    THEN RemoveResult("failed to read confirmation", f, <<>>, TRUE, FALSE)
  ELSE IF ToLowerAnswer(e.answer) # "y"
    THEN RemoveResult(Nil, f, <<>>, TRUE, FALSE)
  ELSE IF t \in e.rootFail
    THEN RemoveResult("failed to remove target", f, <<>>, TRUE, TRUE)
  ELSE RemoveResult(Nil, RemoveRoot(f, t), <<>>, TRUE, FALSE)

\* removeCommand.executeRemove(t)
ExecuteRemove(f, t, e) ==
  IF GetTargetRootDir(f, t) # Nil
    THEN RemoveResult("target not found", f, <<>>, FALSE, FALSE)
  ELSE IF e.answer = ReadFail
    THEN RemoveResult("failed to read confirmation", f, <<>>, TRUE, FALSE)
  ELSE IF ToLowerAnswer(e.answer) # "y"
    THEN RemoveResult(Nil, f, <<>>, TRUE, FALSE)
  ELSE IF t \in e.rootFail
    THEN RemoveResult("failed to remove target", f, <<>>, TRUE, TRUE)
  ELSE RemoveResult(Nil, RemoveRoot(f, t), <<>>, TRUE, FALSE)

\* the matching that stops at the first name that starts with sel
MatchingDirsFirst(names, sel) ==
  IF FirstMatch(names, 1, sel) = Empty THEN <<>>
  ELSE <<FirstMatch(names, 1, sel)>>

\* remove_test.go 198-203: the names of the listing that start with sel
MatchingDirs(names, sel) == SelectSeq(names, LAMBDA n : HasPrefix(n, sel))

\* removeCommand.executeRemoveCommit(t, sel)
ExecuteRemoveCommit(f, t, sel, e) ==
  LET matchingDirs == MatchingDirs(ReadDir(f, t), sel) IN
  IF GetTargetRootDir(f, t) # Nil
    THEN RemoveResult("target not found", f, <<>>, FALSE, FALSE)
  ELSE IF Len(sel) < ShortHashLen
    THEN RemoveResult("commit hash is too short", f, <<>>, FALSE, FALSE)
  ELSE IF Len(matchingDirs) = 0
    THEN RemoveResult("no builds found for commit", f, matchingDirs, FALSE, FALSE)
  ELSE IF Len(matchingDirs) > 1
    THEN RemoveResult("please provide a more specific commit hash", f,
                      matchingDirs, FALSE, FALSE)
  ELSE IF e.answer = ReadFail
    THEN RemoveResult("failed to read confirmation", f, matchingDirs, TRUE, FALSE)
  ELSE IF ToLowerAnswer(e.answer) # "y"
    THEN RemoveResult(Nil, f, matchingDirs, TRUE, FALSE)
  ELSE IF matchingDirs[1] \in e.rmFail
    THEN RemoveResult("failed to remove commit build", f, matchingDirs, TRUE, TRUE)
  ELSE RemoveResult(Nil, RemoveDir(f, t, matchingDirs[1]), matchingDirs, TRUE, FALSE)

\* remove_test.go 268-278: os.RemoveAll of each target root, failures skipped
RECURSIVE RemoveRoots(_, _, _, _)
RemoveRoots(f, targets, i, rootFail) ==
  IF i > Len(targets) THEN f
  ELSE RemoveRoots(IF targets[i] \in rootFail THEN f
                   ELSE RemoveRoot(f, targets[i]),
                   targets, i + 1, rootFail)

\* removeCommand.executeRemoveAll()
ExecuteRemoveAll(f, e) ==
  LET targets == SelectSeq(TargetOrder, LAMBDA t : ExistsRoot(f, t)) IN
  IF e.answer = ReadFail
    THEN RemoveResult("failed to read confirmation", f, <<>>, TRUE, FALSE)
  ELSE IF ToLowerAnswer(e.answer) # "y"
    THEN RemoveResult(Nil, f, <<>>, TRUE, FALSE)
  ELSE [RemoveResult(Nil, RemoveRoots(f, targets, 1, e.rootFail), targets,
                     TRUE, Range(targets) \cap e.rootFail # {})
          EXCEPT !.removed = RemovedCount(targets, 1, e.rootFail)]

\* nigiri remove t
Remove(t, e) ==
  \E r \in {ExecuteRemove(fs, t, e)} :
  /\ fs' = r.fs
  /\ last' = [op |-> "remove", t |-> t, err |-> r.err, asked |-> r.asked,
              answer |-> IF r.asked THEN e.answer ELSE "",
              failed |-> r.failed]
  /\ UNCHANGED <<commit, now, procs>>

\* nigiri remove t sel
RemoveCommit(t, sel, e) ==
  \E r \in {ExecuteRemoveCommit(fs, t, sel, e)} :
  /\ fs' = r.fs
  /\ last' = [op |-> "removeCommit", t |-> t, sel |-> sel, err |-> r.err,
              matches |-> r.matches, asked |-> r.asked,
              answer |-> IF r.asked THEN e.answer ELSE "",
              failed |-> r.failed]
  /\ UNCHANGED <<commit, now, procs>>

\* nigiri remove --all
RemoveAll(e) ==
  \E r \in {ExecuteRemoveAll(fs, e)} :
  /\ fs' = r.fs
  /\ last' = [op |-> "removeAll", err |-> r.err, targets |-> r.matches,
              asked |-> r.asked,
              answer |-> IF r.asked THEN e.answer ELSE "",
              failed |-> r.failed, removed |-> r.removed,
              stuck |-> IF r.failed THEN Range(r.matches) \cap e.rootFail
                        ELSE {}]
  /\ UNCHANGED <<commit, now, procs>>

(***************************************************************************)
(* list                                                                    *)
(***************************************************************************)
\* listCommand.listTargetCommits(t): the error and the names it prints; it
\* only reads (os.Stat, os.ReadDir)
ListTargetCommits(f, t) ==
  IF GetTargetRootDir(f, t) # Nil
    THEN [err |-> GetTargetRootDir(f, t), listed |-> {}]
  ELSE [err |-> Nil, listed |-> Range(ReadDir(f, t))]

\* listCommand.listAllTargets(): the commit count printed for each target
ListAllTargets(f) == [t \in f.roots |-> Cardinality(DirNames(f, t))]

\* nigiri list t
List(t) ==
  \E r \in {ListTargetCommits(fs, t)} :
  /\ last' = [op |-> "list", t |-> t, err |-> r.err, listed |-> r.listed]
  /\ UNCHANGED <<commit, fs, now, procs>>

\* nigiri list
ListAll ==
  /\ last' = [op |-> "listAll", err |-> Nil, counts |-> ListAllTargets(fs)]
  /\ UNCHANGED <<commit, fs, now, procs>>

\* the clock stops at MaxTime
MaxTime == 2

Tick ==
  /\ now < MaxTime
  /\ now' = now + 1
  /\ last' = [op |-> "Tick"]
  /\ UNCHANGED <<commit, fs, procs>>

(***************************************************************************)
(* build and run on one store                                              *)
(***************************************************************************)
HeadLower == <<"h","e","a","d">>
HeadMixed == <<"H","e","a","d">>

\* an environment in which every step succeeds
OkEnv ==
  [head |-> Def9012, cloneHead |-> Def9012, tree |-> {SubDir},
   out |-> {"target", BinPathT2}, fail |-> {}]

RunEnvs == {[extractOk |-> TRUE, exit |-> 0], [extractOk |-> TRUE, exit |-> 1],
            [extractOk |-> FALSE, exit |-> 0]}

DoBuild(ts, refs, forces, depths, envs) ==
  \E t \in ts, ref \in refs, force \in forces, depth \in depths, e \in envs :
    Build(t, ref, force, depth, e)

DoRun(ts, tokens) ==
  \E t \in ts, token \in tokens, e \in RunEnvs : Run(t, token, e)

InitStore ==
  /\ commit = Commit(Empty, Empty)
  /\ fs = EmptyFs
  /\ now = 0
  /\ last = [op |-> "init"]
  /\ procs = NoProcs

\* builds of one configured and one unconfigured target, with failures
BuildTargets == {"t1", "t3"}
BuildRefs == {Empty, Abc1234d, Abc12}
BuildDepths == {0, 1}
BuildEnvs ==
  { OkEnv,
    [OkEnv EXCEPT !.head = HeadFail],
    [OkEnv EXCEPT !.fail = {"clone"}],
    [OkEnv EXCEPT !.fail = {"checkout"}],
    [OkEnv EXCEPT !.fail = {"exit"}] }

NextBuild ==
  \/ Tick
  \/ DoBuild(BuildTargets, BuildRefs, BOOLEAN, BuildDepths, BuildEnvs)

SpecBuild == InitStore /\ [][NextBuild]_vars

\* builds of one target by ref and depth
RefInputs == {Empty, HEAD, HeadLower, Abc1234d}
DepthInputs == {0, 1, 2}
RefEnvs == {OkEnv, [OkEnv EXCEPT !.fail = {"checkout"}]}

NextBuildRefs ==
  \/ Tick
  \/ DoBuild({"t1"}, RefInputs, BOOLEAN, DepthInputs, RefEnvs)

SpecBuildRefs == InitStore /\ [][NextBuildRefs]_vars

\* runs over the builds of one target
RunTargets == {"t1", "t3"}
RunRefs == {Empty, Abc1234d, Abc5678}
RunTokens ==
  {Empty, HEAD, HeadLower, HeadMixed, Abc1234, Abc1234d, Abc5678, Abc, Abc1}

NextRun ==
  \/ Tick
  \/ DoBuild({"t1"}, RunRefs, {FALSE}, {1}, {OkEnv})
  \/ DoRun(RunTargets, RunTokens)

SpecRun == InitStore /\ [][NextRun]_vars

\* retention of the builds of one target: the flags and the environment of
\* the invocations (the answer matters only where a prompt may be read, the
\* removal failure only where removal may start)
CleanupModes ==
  { [dryRun |-> TRUE,  skipConfirm |-> FALSE, answer |-> "y", rmFail |-> {}],
    [dryRun |-> TRUE,  skipConfirm |-> TRUE,  answer |-> "y", rmFail |-> {}],
    [dryRun |-> FALSE, skipConfirm |-> TRUE,  answer |-> "n", rmFail |-> {}],
    [dryRun |-> FALSE, skipConfirm |-> TRUE,  answer |-> "n", rmFail |-> {Abc1234}],
    [dryRun |-> FALSE, skipConfirm |-> FALSE, answer |-> "y", rmFail |-> {}],
    [dryRun |-> FALSE, skipConfirm |-> FALSE, answer |-> "n", rmFail |-> {}],
    [dryRun |-> FALSE, skipConfirm |-> FALSE, answer |-> ReadFail, rmFail |-> {}] }
MaxBuildsInputs == {0, 1, 2}
MaxAgeInputs == {0, 1}


\* the invocations of cleanup: c the flags and e the environment of each
CleanupRuns(K, D, M, RF) ==
  { [c |-> [maxBuilds |-> k, maxAge |-> d, dryRun |-> m.dryRun,
            skipConfirm |-> m.skipConfirm],
     e |-> [answer |-> m.answer, rmFail |-> m.rmFail, readFail |-> R]] :
      k \in K, d \in D, m \in M, R \in RF }
RetentionRuns ==
  CleanupRuns(MaxBuildsInputs, MaxAgeInputs, CleanupModes, {{}})

DoCleanup(ts) ==
  \E t \in ts, x \in RetentionRuns : Cleanup(t, x.c, x.e)

DoCleanupAll ==
  \E x \in RetentionRuns : CleanupAll(x.c, x.e)

RetentionRefs == {Abc1234d, Abc5678f, Def9012}

NextRetention ==
  \/ Tick
  \/ DoBuild({"t1"}, RetentionRefs, {FALSE}, {1}, {OkEnv})
  \/ DoCleanup({"t1", "t3"})

SpecRetention == InitStore /\ [][NextRetention]_vars

\* retention over two targets
NextRetentionAll ==
  \/ Tick
  \/ DoBuild({"t1"}, {Abc1234d, Abc5678f}, {FALSE}, {1}, {OkEnv})
  \/ DoBuild({"t2"}, {Def9012}, {FALSE}, {1}, {OkEnv})
  \/ DoCleanup({"t1"})
  \/ DoCleanupAll

SpecRetentionAll == InitStore /\ [][NextRetentionAll]_vars

\* sweeps of all targets, where the directory of a target may be unreadable
SweepReadFails == {{}, {"t1"}}

SweepRuns == CleanupRuns({1}, MaxAgeInputs, CleanupModes, SweepReadFails)

DoSweep ==
  \E x \in SweepRuns : CleanupAll(x.c, x.e)

NextSweep ==
  \/ Tick
  \/ DoBuild({"t1"}, {Abc1234d, Abc5678f}, {FALSE}, {1}, {OkEnv})
  \/ DoBuild({"t2"}, {Abc1234d, Def9012}, {FALSE}, {1}, {OkEnv})
  \/ DoSweep

SpecSweep == InitStore /\ [][NextSweep]_vars

\* removal of targets and builds, with a cleanup of the same store
RemoveEnvs ==
  {[answer |-> a, rmFail |-> F, rootFail |-> G] :
     a \in {"y", "Y", "n", ReadFail}, F \in {{}, {Abc1234}}, G \in {{}, {"t1"}}}
RemoveTargets == {"t1", "t3"}
RemoveSelectors == {Empty, Abc, Abc1234, Abc1234d, Abc5678, Def9012}

\* the cleanup invocations next to remove: those of CleanupModes and one that
\* answers the prompt with a capital Y
GateModes ==
  CleanupModes \cup
    {[dryRun |-> FALSE, skipConfirm |-> FALSE, answer |-> "Y", rmFail |-> {}]}
GateRuns == CleanupRuns({1}, {1}, GateModes, {{}})

DoRemove ==
  \/ \E t \in RemoveTargets, e \in RemoveEnvs : Remove(t, e)
  \/ \E t \in RemoveTargets, sel \in RemoveSelectors, e \in RemoveEnvs :
       RemoveCommit(t, sel, e)
  \/ \E e \in RemoveEnvs : RemoveAll(e)

NextRemove ==
  \/ Tick
  \/ DoBuild({"t1"}, {Abc1234d, Abc5678f}, {FALSE}, {1}, {OkEnv})
  \/ DoBuild({"t2"}, {Def9012}, {FALSE}, {1}, {OkEnv})
  \/ DoRemove
  \/ \E t \in RemoveTargets, x \in GateRuns : Cleanup(t, x.c, x.e)

SpecRemove == InitStore /\ [][NextRemove]_vars

\* builds that fail after the commit directory was created, of a target built
\* in the clone directory, of one built in a subdirectory and of one without
\* a build command for this OS
FailEnvs ==
  { OkEnv,
    [OkEnv EXCEPT !.fail = {"clone"}],
    [OkEnv EXCEPT !.fail = {"checkout"}],
    [OkEnv EXCEPT !.fail = {"exit"}] }
NoSubDirEnv == [OkEnv EXCEPT !.tree = {}]

SubDirEnvs == {NoSubDirEnv, OkEnv, [OkEnv EXCEPT !.fail = {"clone"}]}

NextBuildFail ==
  \/ Tick
  \/ DoBuild({"t1"}, {Abc1234d}, BOOLEAN, {0}, FailEnvs)
  \/ DoBuild({"t2"}, {Abc1234d}, BOOLEAN, {0}, SubDirEnvs)
  \/ DoBuild({"t5"}, {Abc1234d}, {FALSE}, {0}, {OkEnv})

SpecBuildFail == InitStore /\ [][NextBuildFail]_vars

\* builds whose steps after the build command fail
PostEnvsT1 ==
  {[OkEnv EXCEPT !.fail = F] :
     F \in {{}, {"meta"}, {"compress"}, {"rmsrc"}, {"exit"}}}
PostEnvsT2 ==
  {[OkEnv EXCEPT !.fail = F] : F \in {{}, {"meta"}, {"copy"}, {"rmsrc"}}}

NextPostBuild ==
  \/ Tick
  \/ DoBuild({"t1"}, {Abc1234d}, BOOLEAN, {1}, PostEnvsT1)
  \/ DoBuild({"t2"}, {Abc1234d}, BOOLEAN, {1}, PostEnvsT2)

SpecPostBuild == InitStore /\ [][NextPostBuild]_vars

\* runs that look for the binary in src: builds whose src stays because its
\* removal fails, with the build output at one of the conventional places
LookupEnvs ==
  {[OkEnv EXCEPT !.out = O, !.fail = {"rmsrc"}] :
     O \in {{}, {"target"}, {"bin/target"}, {"build/target"}, {BinPathT2}}}

NextLookup ==
  \/ Tick
  \/ DoBuild({"t1", "t2"}, {Abc1234d}, {TRUE}, {1}, LookupEnvs)
  \/ DoRun({"t1", "t2"}, {Empty})

SpecLookup == InitStore /\ [][NextLookup]_vars

\* builds and runs of the binary-only targets
BinaryOnlyTargets == {"t2", "t4"}
BinaryOnlyEnvs == {OkEnv, [OkEnv EXCEPT !.fail = {"copy"}]}

NextBinaryOnly ==
  \/ Tick
  \/ DoBuild(BinaryOnlyTargets, {Abc1234d}, BOOLEAN, {1}, BinaryOnlyEnvs)
  \/ DoRun(BinaryOnlyTargets, {Empty, Abc1234})

SpecBinaryOnly == InitStore /\ [][NextBinaryOnly]_vars

\* run with argument vectors of at most MaxArgs tokens after the target
MaxArgs == 3
ArgTokens == {Abc1234, HEAD, Dash2, FlagV, ArgX}

RECURSIVE Vectors(_)
Vectors(n) ==
  IF n = 0 THEN {<<>>}
  ELSE Vectors(n - 1) \cup
       {Append(v, tok) : v \in {w \in Vectors(n - 1) : Len(w) = n - 1},
                         tok \in ArgTokens}

ArgVectors == {<<>>} \cup {<<T2>> \o v : v \in Vectors(MaxArgs)}
ArgEnvs == {[extractOk |-> TRUE, exit |-> 0], [extractOk |-> TRUE, exit |-> 2]}

NextArgs ==
  \/ DoBuild({"t2"}, {Abc1234d}, {FALSE}, {1}, {OkEnv})
  \/ \E args \in ArgVectors, e \in ArgEnvs : RunCommand(args, e)

SpecArgs == InitStore /\ [][NextArgs]_vars

(***************************************************************************)
(* Claims about build and run                                              *)
(***************************************************************************)

\* C5 (checked under SpecBuild): a build that returns success leaves the
\* artifact directory of its commit in place; a build without the force flag
\* that finds that directory does not clone, does not execute the build
\* command, changes nothing under the storage root and returns success; a
\* build with the force flag that finds it never reports "already built" and
\* executes the build command unless the clone, the checkout, the working
\* directory or the command selection fails first.
C5_BuildStep ==
  last'.op = "build" =>
    /\ last'.err = Nil =>
         last'.short \in DirNames(fs', last'.t)
    /\ (last'.existed /\ ~last'.force) =>
         /\ last'.short \in DirNames(fs, last'.t)
         /\ ~last'.cloned
         /\ ~last'.ran
         /\ fs' = fs
         /\ last'.err = Nil
    /\ (last'.existed /\ last'.force) =>
         /\ ~last'.skipped
         /\ last'.cloned
         /\ \/ last'.ran
            \/ last'.err \in {"failed to clone repository",
                              "failed to checkout commit",
                              "working directory not found in source",
                              "no build command specified for OS"}

C6_LatestStep ==
  (last'.op = "run" /\ last'.sel = Empty /\ ExistsRoot(fs, last'.t)) =>
    /\ DirNames(fs, last'.t) = {} =>
         /\ last'.err = "no builds found for target"
         /\ ~last'.launched
    /\ (DirNames(fs, last'.t) # {} /\ DistinctTimes(fs, last'.t)) =>
         /\ last'.dir \in DirNames(fs, last'.t)
         /\ \A n \in DirNames(fs, last'.t) :
              fs.arts[last'.t][n].mtime <= fs.arts[last'.t][last'.dir].mtime

Matches(f, t, sel) == {n \in DirNames(f, t) : HasPrefix(n, sel)}

\* C10 (as claimed, checked under SpecRun): a run whose selector is a prefix
\* of more than one build directory name fails with an ambiguity error, of
\* exactly one resolves that one, and of none fails not-found.
C10_PrefixStep ==
  (last'.op = "run" /\ last'.sel # Empty /\ ExistsRoot(fs, last'.t)) =>
    /\ Cardinality(Matches(fs, last'.t, last'.sel)) > 1 =>
         last'.err = "ambiguous commit"
    /\ Cardinality(Matches(fs, last'.t, last'.sel)) = 1 =>
         last'.dir \in Matches(fs, last'.t, last'.sel)
    /\ Matches(fs, last'.t, last'.sel) = {} =>
         last'.err = "no build found for commit"

C10_AmbiguousPrefix == [][C10_PrefixStep]_vars

(***************************************************************************)
(* Claims about cleanup                                                    *)
(***************************************************************************)

\* the number of builds of t strictly newer than build n
NewerCount(f, t, n) ==
  Cardinality({m \in DirNames(f, t) : f.arts[t][m].mtime > f.arts[t][n].mtime})

\* the builds of t that are not among the k newest
NotAmongNewest(f, t, k) == {n \in DirNames(f, t) : NewerCount(f, t, n) >= k}

\* the builds of t older than d days at time clock
OlderThan(f, t, clock, d) ==
  {n \in DirNames(f, t) : clock - f.arts[t][n].mtime > d}

\* the invocation l was not a dry run and was confirmed, by flag or by answer
Confirmed(l) ==
  /\ ~l.c.dryRun
  /\ l.c.skipConfirm \/ l.answer \in {"y", "Y"}

\* C7 (checked under SpecRetention): a confirmed, non-dry-run cleanup of one
\* target whose n builds have distinct modification times, with
\* max-builds = k > 0 and no failing removal, marks and removes every build
\* that is not among the k newest; when no build exceeds the age bound,
\* exactly the min(n, k) newest builds remain.
C7_CountStep ==
  ( /\ last'.op = "cleanup"
    /\ Confirmed(last')
    /\ last'.c.maxBuilds > 0
    /\ ExistsRoot(fs, last'.t)
    /\ DistinctTimes(fs, last'.t)
    /\ ~last'.failed ) =>
    /\ \A n \in NotAmongNewest(fs, last'.t, last'.c.maxBuilds) :
         /\ n \in Range(last'.marked)
         /\ n \notin DirNames(fs', last'.t)
    /\ ( \/ last'.c.maxAge <= 0
         \/ OlderThan(fs, last'.t, now, last'.c.maxAge) = {} ) =>
         /\ DirNames(fs', last'.t) =
              DirNames(fs, last'.t) \ NotAmongNewest(fs, last'.t, last'.c.maxBuilds)
         /\ Cardinality(DirNames(fs', last'.t)) =
              IF Cardinality(DirNames(fs, last'.t)) < last'.c.maxBuilds
              THEN Cardinality(DirNames(fs, last'.t)) ELSE last'.c.maxBuilds

C7_RetentionCount == [][C7_CountStep]_vars

\* C7 witness: a confirmed cleanup with max-builds = 1 and the age bound off
\* found three builds with distinct modification times, marked two and left
\* one.
C7_Witness ==
  /\ last.op = "cleanup"
  /\ Confirmed(last)
  /\ last.c.maxBuilds = 1
  /\ last.c.maxAge = 0
  /\ last.found = 3
  /\ last.distinct
  /\ ~last.failed
  /\ Len(last.marked) = 2
  /\ Cardinality(DirNames(fs, last.t)) = 1

\* C8 (checked under SpecRetention): in a cleanup of one target whose builds
\* have distinct modification times, with max-age = d > 0, the marked builds
\* are exactly the builds not among the max-builds newest (none when
\* max-builds is 0) together with the builds whose age is strictly greater
\* than d days, each listed once; when the cleanup is confirmed, not a dry run
\* and no removal fails, exactly these are removed.
C8_AgeStep ==
  ( /\ last'.op = "cleanup"
    /\ last'.c.maxAge > 0
    /\ ExistsRoot(fs, last'.t)
    /\ DistinctTimes(fs, last'.t) ) =>
    LET excess == IF last'.c.maxBuilds > 0
                  THEN NotAmongNewest(fs, last'.t, last'.c.maxBuilds) ELSE {}
        old == OlderThan(fs, last'.t, now, last'.c.maxAge)
    IN /\ Range(last'.marked) = excess \cup old
       /\ Len(last'.marked) = Cardinality(excess \cup old)
       /\ (Confirmed(last') /\ ~last'.failed) =>
            DirNames(fs, last'.t) \ DirNames(fs', last'.t) = excess \cup old

C8_RetentionAge == [][C8_AgeStep]_vars

\* C8 witness: a confirmed cleanup with max-age = 1 and max-builds = 2 found
\* two builds, within the count bound, and removed the one that was too old.
C8_Witness ==
  /\ last.op = "cleanup"
  /\ Confirmed(last)
  /\ last.c.maxAge = 1
  /\ last.c.maxBuilds = 2
  /\ last.found = 2
  /\ last.distinct
  /\ ~last.failed
  /\ Len(last.marked) = 1
  /\ Cardinality(DirNames(fs, last.t)) = 1

\* C9 (checked under SpecRetentionAll): a cleanup with the dry-run flag, of one
\* target or of all targets and with any bounds, leaves the set of build
\* directories of every target as it was and reads no confirmation.
C9_DryRunStep ==
  (last'.op \in {"cleanup", "cleanupAll"} /\ last'.c.dryRun) =>
    /\ fs'.roots = fs.roots
    /\ \A t \in TargetNames : DirNames(fs', t) = DirNames(fs, t)
    /\ ~last'.asked

C9_DryRunNeverDeletes == [][C9_DryRunStep]_vars

\* C9 witness: a dry run over all targets, without the --yes flag, that found
\* builds to remove.
C9_Witness ==
  /\ last.op = "cleanupAll"
  /\ last.c.dryRun
  /\ ~last.c.skipConfirm
  /\ last.nmarked > 1
  /\ Cardinality(fs.roots) = 2

(***************************************************************************)
(* Claims about the run command line                                       *)
(***************************************************************************)

\* C12 (checked under SpecRun): a run whose selector token is HEAD in any
\* letter case resolves the build directory that the empty selector resolves
\* in the same state of the target root, the most recently modified one, and
\* fails as the empty selector does when the target has no builds.
C12_HeadStep ==
  ( /\ last'.op = "run"
    /\ Len(last'.token) = 4
    /\ \A i \in 1..4 : \/ last'.token[i] = HEAD[i]
                       \/ last'.token[i] = HeadLower[i] ) =>
    /\ last'.sel = Empty
    /\ last'.dir = ResolveRunDir(fs, last'.t, Empty).dir
    /\ ResolveRunDir(fs, last'.t, Empty).err # Nil =>
         last'.err = ResolveRunDir(fs, last'.t, Empty).err
    /\ (ExistsRoot(fs, last'.t) /\ DirNames(fs, last'.t) = {}) =>
         last'.err = "no builds found for target"
    /\ (DirNames(fs, last'.t) # {} /\ DistinctTimes(fs, last'.t)) =>
         \A n \in DirNames(fs, last'.t) :
           fs.arts[last'.t][n].mtime <= fs.arts[last'.t][last'.dir].mtime

C12_HeadAlias == [][C12_HeadStep]_vars

\* C12 witness: a run with the token Head resolved the newest of three builds,
\* which is not the first name of the listing.
C12_Witness ==
  /\ last.op = "run"
  /\ last.token = HeadMixed
  /\ Cardinality(DirNames(fs, last.t)) = 3
  /\ last.dir = Def9012
  /\ \A n \in DirNames(fs, last.t) \ {Def9012} :
       fs.arts[last.t][n].mtime < fs.arts[last.t][Def9012].mtime

\* C13 (checked under SpecArgs): for an argument vector of at least two tokens
\* without the "--" separator, if the token after the target starts with '-'
\* no commit selector is taken and every token after the target is passed to
\* the binary in order; otherwise the token after the target is the commit
\* selector and every later token is passed to the binary in order.
C13_Split ==
  ( /\ last.op = "runCommand"
    /\ Len(last.args) >= 2
    /\ \A i \in 1..Len(last.args) : last.args[i] # Dash2 ) =>
    /\ last.target = Head(last.args)
    /\ IF Head(Tail(last.args))[1] = "-"
       THEN /\ last.commitHash = Empty
            /\ last.targetArgs = Tail(last.args)
       ELSE /\ last.commitHash = Head(Tail(last.args))
            /\ last.targetArgs = Tail(Tail(last.args))
    /\ last.launched => last.passed = last.targetArgs

\* C13 witness: the binary of the latest build was launched with a flag and a
\* word, given right after the target.
C13_Witness ==
  /\ last.op = "runCommand"
  /\ last.args = <<T2, FlagV, ArgX>>
  /\ last.launched
  /\ last.dir = Abc1234
  /\ last.passed = <<FlagV, ArgX>>

\* C14 (as claimed, checked under SpecArgs): the nigiri process exits with the
\* exit status of the binary it launched.
C14_ExitMirrors ==
  (last.op = "runCommand" /\ last.launched) => last.code = last.exit

(***************************************************************************)
(* Claims about the build pipeline                                         *)
(***************************************************************************)

\* C15 (checked under SpecBuild): a build whose command exits non-zero returns
\* the error that names the build log, and the log directory is in the
\* artifact directory; a build whose command exits zero returns success; a
\* build that finds the artifact and has no force flag returns success; a
\* build whose commit cannot be resolved (the remote HEAD lookup fails, or the
\* given commit has fewer than 7 characters) returns an error before cloning.
C15_FinalStatus ==
  last.op = "build" =>
    /\ (last.ran /\ last.exit # 0) =>
         /\ last.err = BuildFailed
         /\ "logs" \in fs.arts[last.t][last.short].entries
    /\ (last.ran /\ last.exit = 0) => last.err = Nil
    /\ (last.existed /\ ~last.force) => last.err = Nil
    /\ ( \/ last.ref = Empty /\ last.remote = HeadFail
         \/ last.ref # Empty /\ Len(last.ref) < ShortHashLen ) =>
         /\ last.err # Nil
         /\ ~last.cloned

\* C15 witness: a forced rebuild of an existing artifact whose build command
\* exited non-zero.
C15_Witness ==
  /\ last.op = "build"
  /\ last.existed
  /\ last.force
  /\ last.ran
  /\ last.exit # 0
  /\ last.err = BuildFailed

\* C16 (as claimed, checked under SpecBuildRefs): a build whose ref is HEAD in
\* any letter case, with the remote HEAD resolvable, builds the artifact named
\* by the first 7 characters of the remote HEAD, as a build with the empty ref
\* does.
C16_HeadRef ==
  ( /\ last.op = "build"
    /\ ToUpper(last.ref) = HEAD
    /\ last.remote # HeadFail ) =>
    /\ last.short = Prefix(last.remote, ShortHashLen)
    /\ last.short \in DirNames(fs, last.t)

\* C17 (as claimed, checked under SpecBuildRefs): the tree a build with an
\* explicitly requested commit runs its command on, which is the tree it
\* archives, is the requested commit.
C17_BuildsRequestedCommit ==
  ( /\ last.op = "build"
    /\ last.ref # Empty
    /\ last.ran
    /\ last.err = Nil ) =>
    fs.arts[last.t][last.short].tar.rev = last.ref

\* C18 (as claimed, checked under SpecBuildRefs): a build with depth 0 clones
\* the full history (depth 0 of PlainClone), and a build with depth N > 0
\* clones with depth N.
C18_CloneDepth ==
  (last.op = "build" /\ last.cloned) =>
    /\ last.depth = 0 => last.cloneDepth = 0
    /\ last.depth > 0 => last.cloneDepth = last.depth

\* C19 (as claimed, checked under SpecRun): a run that resolves an artifact
\* holding source.tar.gz and neither bin nor src, and whose extraction
\* succeeds, leaves <artifact>/src with the file tree that was compressed; a
\* run that finds src does not extract.
C19_ExtractStep ==
  ( /\ last'.op = "run"
    /\ last'.t \in ConfigTargets
    /\ last'.dir # Empty
    /\ "bin" \notin fs.arts[last'.t][last'.dir].entries
    /\ last'.err # "failed to extract source archive" ) =>
    /\ ( /\ "source.tar.gz" \in fs.arts[last'.t][last'.dir].entries
         /\ "src" \notin fs.arts[last'.t][last'.dir].entries ) =>
         /\ "src" \in fs'.arts[last'.t][last'.dir].entries
         /\ fs'.arts[last'.t][last'.dir].src.files =
              fs.arts[last'.t][last'.dir].tar.files
    /\ "src" \in fs.arts[last'.t][last'.dir].entries => fs' = fs

C19_ArchiveRoundTrip == [][C19_ExtractStep]_vars

\* C20 (as claimed, checked under SpecBinaryOnly): after a build of a
\* binary-only target that ran the build command and reports success, the
\* artifact directory holds the binary and neither src nor source.tar.gz, and
\* a run that resolves an artifact of a binary-only target launches its
\* binary.
C20_BinaryOnly ==
  /\ ( /\ last.op = "build"
       /\ last.t \in ConfigTargets
       /\ Config[last.t].BinaryOnly
       /\ last.ran
       /\ last.err = Nil ) =>
       /\ "bin" \in fs.arts[last.t][last.short].entries
       /\ "src" \notin fs.arts[last.t][last.short].entries
       /\ "source.tar.gz" \notin fs.arts[last.t][last.short].entries
  /\ ( /\ last.op = "run"
       /\ last.t \in ConfigTargets
       /\ Config[last.t].BinaryOnly
       /\ last.dir # Empty ) =>
       last.launched

(***************************************************************************)
(* Claims about the confirmation gate                                      *)
(***************************************************************************)
Yes == {"y", "Y"}

\* C21 (checked under SpecRemove): cleanup of a target without the --yes flag,
\* remove of a target, remove of a commit and remove --all change the
\* filesystem only after they read a confirmation answer that is y or Y; after
\* any other answer they change nothing and return no error; after a failed
\* read they change nothing and return an error; a cleanup that marks no build
\* returns no error, reads no answer and changes nothing.
C21_GateStep ==
  ( \/ last'.op \in {"remove", "removeCommit", "removeAll"}
    \/ last'.op = "cleanup" /\ ~last'.c.skipConfirm ) =>
    /\ fs' # fs => last'.asked /\ last'.answer \in Yes
    /\ (last'.asked /\ last'.answer \notin Yes \cup {ReadFail}) =>
         fs' = fs /\ last'.err = Nil
    /\ (last'.asked /\ last'.answer = ReadFail) =>
         fs' = fs /\ last'.err # Nil
    /\ (last'.op = "cleanup" /\ last'.err = Nil /\ last'.marked = <<>>) =>
         fs' = fs /\ ~last'.asked

C21_ConfirmationGate == [][C21_GateStep]_vars

\* C21 witness: a cleanup without the --yes flag has marked a build, read the
\* answer Y and removed the build.
C21_Witness ==
  /\ last.op = "cleanup"
  /\ ~last.c.skipConfirm
  /\ ~last.c.dryRun
  /\ last.asked
  /\ last.answer = "Y"
  /\ last.err = Nil
  /\ Len(last.marked) = 1
  /\ last.marked[1] \notin DirNames(fs, last.t)

\* C22 (checked under SpecSweep): a cleanup of all targets reads at most one
\* confirmation; after an answer other than y or Y no target has changed;
\* after a positive answer or with the --yes flag, and outside a dry run, every
\* target whose root is readable, whose builds have distinct modification
\* times and whose removals succeed loses exactly the builds beyond its
\* max-builds newest and the builds older than max-age, whichever targets
\* came before it; a target whose root cannot be read is warned about and
\* left as it was, and the command still returns no error.
C22_SweepStep ==
  last'.op = "cleanupAll" =>
    /\ last'.prompts <= 1
    /\ (last'.asked /\ last'.answer \notin Yes) => fs' = fs
    /\ (Confirmed(last') /\ ~last'.failed) =>
         /\ last'.err = Nil
         /\ last'.warned = fs.roots \cap last'.readFail
         /\ \A t \in fs.roots :
              IF t \in last'.readFail THEN fs'.arts[t] = fs.arts[t]
              ELSE DistinctTimes(fs, t) =>
                     DirNames(fs, t) \ DirNames(fs', t) =
                       NotAmongNewest(fs, t, last'.c.maxBuilds) \cup
                       (IF last'.c.maxAge > 0
                        THEN OlderThan(fs, t, now, last'.c.maxAge) ELSE {})

C22_SweepAsksOnce == [][C22_SweepStep]_vars

\* C22 witness: a sweep without the --yes flag read one positive answer, could
\* not read the first target, warned about it and removed a build of the
\* second.
C22_Witness ==
  /\ last.op = "cleanupAll"
  /\ ~last.c.skipConfirm
  /\ last.prompts = 1
  /\ last.answer = "y"
  /\ last.warned = {"t1"}
  /\ last.nmarked = 1
  /\ last.err = Nil
  /\ Cardinality(DirNames(fs, "t1")) = 2
  /\ Cardinality(DirNames(fs, "t2")) = 1

(***************************************************************************)
(* Claims about failed builds                                              *)
(***************************************************************************)
ResolutionErrors ==
  {"target not found in configuration", "failed to get HEAD of branch",
   "failed to calculate short hash", "invalid commit"}

\* C23 (checked under SpecBuild): a build that fails because the target is not
\* in the configuration, the remote HEAD cannot be resolved or the commit is
\* shorter than 7 characters leaves the filesystem as it was: no target root
\* and no commit directory is created.
C23_ResolutionStep ==
  (last'.op = "build" /\ last'.err \in ResolutionErrors) => fs' = fs

C23_ResolutionErrorsMutateNothing == [][C23_ResolutionStep]_vars

PipelineErrors ==
  {"failed to clone repository", "failed to checkout commit",
   "working directory not found in source",
   "no build command specified for OS", BuildFailed}

\* C25 (checked under SpecBuildFail): a build that fails at clone, at checkout,
\* at the lookup of the working directory, at the selection of the build
\* command or in the build command returns an error and leaves the commit
\* directory and its logs directory in place.
C25_NoRollbackStep ==
  (last'.op = "build" /\ last'.err \in PipelineErrors) =>
    /\ last'.cloned
    /\ last'.short \in DirNames(fs', last'.t)
    /\ "logs" \in fs'.arts[last'.t][last'.short].entries

C25_NoRollback == [][C25_NoRollbackStep]_vars

\* C25 witness: a first build of a commit has just failed because the working
\* directory is not in the clone, and the commit directory is there.
C25_Witness ==
  /\ last.op = "build"
  /\ last.t = "t2"
  /\ ~last.existed
  /\ last.err = "working directory not found in source"
  /\ last.short \in DirNames(fs, "t2")
  /\ "logs" \in fs.arts["t2"][last.short].entries

\* C26 (checked under SpecBuildFail): while the commit directory of a commit
\* exists, whatever build left it and however that build ended, a build of the
\* same target and commit without the force flag returns no error, reports
\* already built, calls neither git.Clone nor the build command and leaves
\* the filesystem as it was.
C26_StaleStep ==
  ( /\ last'.op = "build"
    /\ ~last'.force
    /\ last'.ref # Empty
    /\ Len(last'.ref) >= ShortHashLen
    /\ Prefix(last'.ref, ShortHashLen) \in DirNames(fs, last'.t) ) =>
    /\ last'.err = Nil
    /\ last'.skipped
    /\ ~last'.cloned
    /\ ~last'.ran
    /\ fs' = fs

C26_FailedBuildBlocksRebuild == [][C26_StaleStep]_vars

\* C26 witness: a build without the force flag has just reported already built
\* for the commit of a target that has no build command, whose every build
\* fails: the directory holds no build-info.txt and no archive.
C26_Witness ==
  /\ last.op = "build"
  /\ last.t = "t5"
  /\ ~last.force
  /\ last.skipped
  /\ last.err = Nil
  /\ fs.arts["t5"][last.short].entries = {"logs", "src"}

\* C27 (checked under SpecPostBuild): a build whose build command exits zero
\* returns no error, whichever of the metadata write, the binary copy, the
\* source compression and the source deletion fails; after a failed
\* compression the src tree of the artifact is still in place with its files.
C27_PostStep ==
  (last'.op = "build" /\ last'.ran) =>
    /\ last'.exit = 0 => last'.err = Nil
    /\ last'.exit # 0 => last'.err = BuildFailed
    /\ "compress" \in last'.postFail =>
         /\ "src" \in fs'.arts[last'.t][last'.short].entries
         /\ fs'.arts[last'.t][last'.short].src.files # {}

C27_PostStepsNeverFail == [][C27_PostStep]_vars

\* C27 witness: the build command exited zero, the compression failed, and
\* the build returned no error with src still there.
C27_Witness ==
  /\ last.op = "build"
  /\ last.ran
  /\ last.exit = 0
  /\ last.postFail = {"compress"}
  /\ last.err = Nil
  /\ "src" \in fs.arts[last.t][last.short].entries

Kept == {"logs", "build-info.txt", "source.tar.gz", "bin"}

\* C28 (checked under SpecBuildFail): a build with the force flag of a commit
\* whose directory exists removes no entry of the directory but src; when it
\* fails at clone, the entries other than src, among them logs,
\* build-info.txt, source.tar.gz and bin, are those the directory had, and the
\* archive holds what it held.
C28_ForceStep ==
  (last'.op = "build" /\ last'.force /\ last'.existed) =>
    LET old == fs.arts[last'.t][last'.short]
        new == fs'.arts[last'.t][last'.short]
    IN /\ old.entries \ {"src"} \subseteq new.entries
       /\ last'.err = "failed to clone repository" =>
            /\ new.entries \cap Kept = old.entries \cap Kept
            /\ new.entries \ {"src"} = old.entries \ {"src"}
            /\ new.tar = old.tar
            /\ new.spill = old.spill

C28_ForceKeepsOldOutputs == [][C28_ForceStep]_vars

\* C28 witness: a forced rebuild has just failed at clone in a directory that
\* still holds the log directory, the metadata and the binary of the earlier
\* build.
C28_Witness ==
  /\ last.op = "build"
  /\ last.t = "t2"
  /\ last.force
  /\ last.existed
  /\ last.err = "failed to clone repository"
  /\ {"logs", "build-info.txt", "bin"} \subseteq fs.arts["t2"][last.short].entries

\* C28 witness for the archive: the same on a target that compresses its
\* source
C28_WitnessArchive ==
  /\ last.op = "build"
  /\ last.t = "t1"
  /\ last.force
  /\ last.existed
  /\ last.err = "failed to clone repository"
  /\ "source.tar.gz" \in fs.arts["t1"][last.short].entries
  /\ fs.arts["t1"][last.short].tar.files # {}

(***************************************************************************)
(* Claims about the binary run launches                                    *)
(***************************************************************************)
\* the places of the binary inside the working directory, in search order
Candidates(cfg) ==
  (IF cfg.BinaryPath # "" THEN <<cfg.BinaryPath>> ELSE <<>>) \o
    <<"target", "bin/target", "build/target">>

\* C29 (as claimed, checked under SpecLookup): a run that resolved a build of
\* a configured target launches the bin entry of the artifact if there is
\* one; otherwise it launches the first of the configured binary path,
\* <target>, bin/<target> and build/<target> that exists in the working
\* directory, and fails with binary-not-found only if none of them exists.
C29_LookupStep ==
  (last'.op = "run" /\ last'.dir # Empty /\ last'.t \in ConfigTargets) =>
    LET cands == Candidates(Config[last'.t])
        files == fs'.arts[last'.t][last'.dir].src.files
    IN IF "bin" \in fs.arts[last'.t][last'.dir].entries
       THEN last'.bin = "bin"
       ELSE /\ last'.err = "binary not found" =>
                 \A i \in 1..Len(cands) : cands[i] \notin files
            /\ last'.launched =>
                 \E i \in 1..Len(cands) :
                   /\ last'.bin = cands[i]
                   /\ cands[i] \in files
                   /\ \A j \in 1..(i - 1) : cands[j] \notin files

C29_BinaryLookup == [][C29_LookupStep]_vars

\* C30 (checked under SpecRemove): the count a cleanup of one target and a
\* remove --all report is the number of directories they removed; when the
\* removal of some directory fails they still return no error and remove
\* every other marked directory, so that only the failing ones are left.
C30_SweepStep ==
  /\ (last'.op = "cleanup" /\ ExistsRoot(fs, last'.t)) =>
       /\ last'.removed =
            Cardinality(DirNames(fs, last'.t) \ DirNames(fs', last'.t))
       /\ last'.failed =>
            /\ last'.err = Nil
            /\ last'.stuck # {}
            /\ DirNames(fs', last'.t) =
                 DirNames(fs, last'.t) \ (Range(last'.marked) \ last'.stuck)
            /\ last'.removed = Len(last'.marked) - Cardinality(last'.stuck)
  /\ last'.op = "removeAll" =>
       /\ last'.removed = Cardinality(fs.roots \ fs'.roots)
       /\ last'.failed =>
            /\ last'.err = Nil
            /\ fs'.roots = last'.stuck
            /\ last'.removed = Len(last'.targets) - Cardinality(last'.stuck)

C30_SweepsContinue == [][C30_SweepStep]_vars

\* C30 witness: a cleanup marked two builds, failed to remove the first,
\* removed the second and reported one.
C30_Witness ==
  /\ last.op = "cleanup"
  /\ last.failed
  /\ Len(last.marked) = 2
  /\ last.marked[1] \in last.stuck
  /\ last.removed = 1
  /\ last.err = Nil
  /\ DirNames(fs, last.t) = last.stuck

\* C30 witness for remove --all: the first target root could not be removed,
\* the second was, and the count is one
C30_WitnessAll ==
  /\ last.op = "removeAll"
  /\ last.failed
  /\ last.targets = <<"t1", "t2">>
  /\ last.removed = 1
  /\ fs.roots = {"t1"}

(***************************************************************************)
(* Claims about remove                                                     *)
(***************************************************************************)

\* C11 (checked under SpecRemove): remove of a target whose root is absent,
\* remove of a commit of a target whose root is absent or whose selector is
\* the prefix of no build directory name, and cleanup of a target whose root
\* is absent each return an error, read no confirmation and leave the
\* filesystem as it was.
C11_MissingStep ==
  ( \/ last'.op \in {"remove", "cleanup"} /\ ~ExistsRoot(fs, last'.t)
    \/ /\ last'.op = "removeCommit"
       /\ \/ ~ExistsRoot(fs, last'.t)
          \/ Matches(fs, last'.t, last'.sel) = {} ) =>
    /\ last'.err # Nil
    /\ ~last'.asked
    /\ fs' = fs

C11_MissingNeverSucceeds == [][C11_MissingStep]_vars

\* C11 witness: remove of a commit that matches none of the builds the target
\* holds has just failed not-found.
C11_Witness ==
  /\ last.op = "removeCommit"
  /\ last.sel = Abc5678
  /\ ExistsRoot(fs, last.t)
  /\ DirNames(fs, last.t) = {Abc1234}
  /\ last.err = "no builds found for commit"
  /\ ~last.asked

\* commits handed to the package functions by a caller
FsCommits ==
  { Commit(Abc1234d, Abc1234), Commit(Abc5678f, Abc5678),
    Commit(Abc1234e, Abc1234), Commit(Abc123, Abc123) }

FsTargets == {"t1", "t2"}

CallCreateTargetRootDirIfNotExist ==
  \E t \in FsTargets, mkdirOk \in BOOLEAN :
    LET r == CreateTargetRootDirIfNotExist(fs, t, mkdirOk) IN
    /\ fs' = r.fs
    /\ last' = [op |-> "CreateTargetRootDirIfNotExist", t |-> t, err |-> r.err]
    /\ UNCHANGED <<commit, now, procs>>

CallIsExistTargetCommitDir ==
  \E t \in FsTargets, c \in FsCommits :
    /\ last' = [op |-> "IsExistTargetCommitDir", t |-> t, c |-> c,
                ret |-> IsExistTargetCommitDir(fs, t, c)]
    /\ UNCHANGED <<commit, fs, now, procs>>

CallGetTargetCommitDir ==
  \E t \in FsTargets, c \in FsCommits :
    LET r == GetTargetCommitDir(fs, t, c) IN
    /\ last' = [op |-> "GetTargetCommitDir", t |-> t, c |-> c,
                err |-> r.err, path |-> r.path]
    /\ UNCHANGED <<commit, fs, now, procs>>

\* repeat: the call before this one was a successful CreateTargetCommitDir
\* with the same arguments
DoCreateTargetCommitDir(ts, cs, oks) ==
  \E t \in ts, c \in cs, mkdirOk \in oks :
    LET r == CreateTargetCommitDir(fs, now, t, c, mkdirOk) IN
    /\ fs' = r.fs
    /\ last' = [op |-> "CreateTargetCommitDir", t |-> t, c |-> c,
                err |-> r.err, path |-> r.path,
                repeat |-> /\ last.op = "CreateTargetCommitDir"
                           /\ last.err = Nil
                           /\ last.t = t
                           /\ last.c = c]
    /\ UNCHANGED <<commit, now, procs>>

CallCreateTargetCommitDir ==
  DoCreateTargetCommitDir(FsTargets, FsCommits, BOOLEAN)

InitFs ==
  /\ commit = Commit(Empty, Empty)
  /\ fs = EmptyFs
  /\ now = 0
  /\ last = [op |-> "init"]
  /\ procs = NoProcs

NextFs ==
  \/ Tick
  \/ CallCreateTargetRootDirIfNotExist
  \/ CallIsExistTargetCommitDir
  \/ CallGetTargetCommitDir
  \/ CallCreateTargetCommitDir

SpecFs == InitFs /\ [][NextFs]_vars

\* C4: a CreateTargetCommitDir that succeeds creates targetRoot/ShortHash,
\* returns that path, and IsExistTargetCommitDir is true after it; the same
\* call made again right after it fails with already-exists, changes nothing,
\* and IsExistTargetCommitDir is still true.
C4_StrictCreate ==
  last.op = "CreateTargetCommitDir" =>
    /\ last.err = Nil =>
         /\ IsExistTargetCommitDir(fs, last.t, last.c)
         /\ last.path = <<last.t, last.c.ShortHash>>
         /\ last.t \in fs.roots
         /\ last.c.ShortHash \in DOMAIN fs.arts[last.t]
    /\ last.repeat =>
         /\ last.err = AlreadyExists
         /\ IsExistTargetCommitDir(fs, last.t, last.c)
         /\ last.c.ShortHash \in DOMAIN fs.arts[last.t]

\* C4 witness: the second of two CreateTargetCommitDir calls in a row for the
\* same commit has failed and the directory is there.
C4_Witness ==
  /\ last.op = "CreateTargetCommitDir"
  /\ last.repeat
  /\ last.err = AlreadyExists
  /\ IsExistTargetCommitDir(fs, last.t, last.c)

(***************************************************************************)
(* remove of a commit from a store whose commit directories were created   *)
(* by targets.CreateTargetCommitDir with the short hash the caller set:    *)
(* Validate accepts every short hash of 7 characters or more, so two names *)
(* of the store may share a selector of 7 characters                       *)
(***************************************************************************)
LongCommits ==
  { Commit(Abc1234d, Abc1234d), Commit(Abc1234e, Abc1234e),
    Commit(Abc5678f, Abc5678) }

CommitSelectors == {Abc, Abc1234, Abc1234d, Abc5678, Def9012}
CommitEnvs ==
  {[answer |-> a, rmFail |-> F, rootFail |-> {}] :
     a \in {"y", "n", ReadFail}, F \in {{}, {Abc1234d}}}

NextRemoveCommit ==
  \/ Tick
  \/ DoCreateTargetCommitDir({"t1"}, LongCommits, {TRUE})
  \/ \E t \in RemoveTargets, sel \in CommitSelectors, e \in CommitEnvs :
       RemoveCommit(t, sel, e)

SpecRemoveCommit == InitFs /\ [][NextRemoveCommit]_vars

\* C24 (checked under SpecRemoveCommit): remove of a commit changes the
\* filesystem only when the target root exists, the selector has 7 characters
\* or more and exactly one build directory name starts with it, and then it
\* removes that directory and nothing else; with no match it fails not-found,
\* with several it fails and lists exactly the matching names; a selector
\* under 7 characters fails; every failure leaves the filesystem as it was.
C24_RemoveStep ==
  last'.op = "removeCommit" =>
    LET M == Matches(fs, last'.t, last'.sel)
        ok == ExistsRoot(fs, last'.t) /\ Len(last'.sel) >= ShortHashLen
    IN /\ fs' # fs =>
            /\ ok
            /\ \E n \in M : M = {n} /\ fs' = RemoveDir(fs, last'.t, n)
       /\ (ok /\ M = {}) => last'.err = "no builds found for commit"
       /\ (ok /\ Cardinality(M) > 1) =>
            /\ last'.err = "please provide a more specific commit hash"
            /\ Range(last'.matches) = M
            /\ Len(last'.matches) = Cardinality(M)
       /\ Len(last'.sel) < ShortHashLen => last'.err # Nil
       /\ last'.err # Nil => fs' = fs

C24_RemoveExactlyOne == [][C24_RemoveStep]_vars

\* C24 witness: remove of the one build whose name starts with the selector
\* has removed it and kept a build that shares its first 7 characters.
C24_Witness ==
  /\ last.op = "removeCommit"
  /\ last.sel = Abc1234d
  /\ last.matches = <<Abc1234d>>
  /\ last.err = Nil
  /\ last.answer = "y"
  /\ DirNames(fs, "t1") = {Abc1234e, Abc5678}

\* C24 witness of the ambiguity: two names start with the selector
C24_WitnessSeveral ==
  /\ last.op = "removeCommit"
  /\ last.sel = Abc1234
  /\ Len(last.matches) = 2
  /\ last.err = "please provide a more specific commit hash"

(***************************************************************************)
(* All commands on one store                                               *)
(***************************************************************************)
\* cleanups that remove without asking and dry runs, with each bound off or 1
RootModes ==
  { [dryRun |-> FALSE, skipConfirm |-> TRUE, answer |-> "n", rmFail |-> {}],
    [dryRun |-> TRUE,  skipConfirm |-> TRUE, answer |-> "n", rmFail |-> {}] }
RootRuns == CleanupRuns({0, 1}, {0, 1}, RootModes, {{}})
RootEnvs == {[answer |-> "y", rmFail |-> {}, rootFail |-> {}]}

NextRoots ==
  \/ Tick
  \/ DoBuild({"t1"}, {Abc1234d, Abc5678f}, {FALSE}, {1}, {OkEnv})
  \/ DoBuild({"t2"}, {Def9012}, {FALSE}, {1}, {OkEnv})
  \/ DoRun({"t1"}, {Empty, Abc1234})
  \/ \E t \in {"t1", "t3"} : List(t)
  \/ ListAll
  \/ \E t \in {"t1", "t2"}, x \in RootRuns : Cleanup(t, x.c, x.e)
  \/ \E x \in RootRuns : CleanupAll(x.c, x.e)
  \/ \E t \in {"t1"}, sel \in {Abc1234, Abc5678}, e \in RootEnvs :
       RemoveCommit(t, sel, e)
  \/ \E t \in {"t1", "t2"}, e \in RootEnvs : Remove(t, e)
  \/ \E e \in RootEnvs : RemoveAll(e)

SpecRoots == InitStore /\ [][NextRoots]_vars

(***************************************************************************)
(* Claims about target roots                                               *)
(***************************************************************************)
\* the commands that never delete a target root
ImplicitOps ==
  {"build", "run", "list", "listAll", "cleanup", "cleanupAll", "removeCommit"}

\* the build directories of t that are left in g are as they were in f
OnlyChildrenGone(f, g, t) ==
  /\ DirNames(g, t) \subseteq DirNames(f, t)
  /\ \A n \in DirNames(g, t) : g.arts[t][n] = f.arts[t][n]

C31_RootStep ==
  /\ last'.op \in ImplicitOps => fs.roots \subseteq fs'.roots
  /\ fs.roots \ fs'.roots # {} => last'.op \in {"remove", "removeAll"}
  /\ last'.op = "cleanup" =>
       /\ \A u \in TargetNames \ {last'.t} : fs'.arts[u] = fs.arts[u]
       /\ OnlyChildrenGone(fs, fs', last'.t)
  /\ last'.op = "cleanupAll" =>
       \A u \in TargetNames : OnlyChildrenGone(fs, fs', u)

\* C31: build, run, list, cleanup (of one target or of all) and remove of a
\* commit never delete a target root, also when no build is left in it; a
\* root disappears only in remove <target> and remove --all; cleanup removes
\* only whole child directories of the roots it sweeps and touches nothing
\* else.
C31_RootNeverImplicitlyDeleted == [][C31_RootStep]_vars

\* a cleanup has just evicted every build of t1 and the root of t1 is there
C31_Witness ==
  /\ last.op = "cleanup"
  /\ last.t = "t1"
  /\ last.removed > 0
  /\ DirNames(fs, "t1") = {}
  /\ "t1" \in fs.roots

\* the only build of t1 was removed by commit and the root of t1 is there
C31_WitnessRemoveCommit ==
  /\ last.op = "removeCommit"
  /\ last.err = Nil
  /\ last.matches # <<>>
  /\ DirNames(fs, "t1") = {}
  /\ "t1" \in fs.roots

(***************************************************************************)
(* build invocations that run at the same time                             *)
(*                                                                         *)
(* Each invocation is a process of its own on the shared filesystem; its   *)
(* position pc is the next filesystem access of executeBuild:              *)
(*   idle    not started                                                   *)
(*   check   before targets.IsExistTargetCommitDir (part_003 174)          *)
(*   create  before dirutils.Exists in CreateTargetCommitDir (part_013 186)*)
(*   mkdir   before os.MkdirAll in CreateTargetCommitDir (part_013 189)    *)
(*   clone   it holds commitDir; before the log directory and git.Clone    *)
(*   finish  cloned; before checkout, build command and the steps after    *)
(*   done, skipped ("already built"), failed                               *)
(***************************************************************************)
Procs == {1, 2}

IdleProc ==
  [pc |-> "idle", t |-> "", ref |-> Empty, short |-> Empty, force |-> FALSE,
   absent |-> FALSE, created |-> FALSE, cloned |-> FALSE, err |-> Nil]

\* part_013 189: os.MkdirAll, which returns nil for a directory that exists
MkdirCommitDir(f, clock, t, name) ==
  [ok |-> TRUE, fs |-> MkdirAll(f, clock, t, name)]

\* part_003 108-171: configuration, target root, commit and short hash
BuildBegin(p, t, ref, force) ==
  /\ procs[p].pc = "idle"
  /\ \E hc \in {CalculateShortHash(Commit(ref, Empty))} :
     /\ fs' = CreateTargetRootDirIfNotExist(fs, t, TRUE).fs
     /\ procs' = [procs EXCEPT ![p] =
          [IdleProc EXCEPT
             !.pc = IF hc.err # Nil \/ Validate(hc.c) # Nil THEN "failed"
                    ELSE "check",
             !.t = t, !.ref = ref, !.short = hc.c.ShortHash, !.force = force,
             !.absent = ~ExistsIn(fs, t, hc.c.ShortHash),
             !.err = IF hc.err # Nil THEN "failed to calculate short hash"
                     ELSE IF Validate(hc.c) # Nil THEN "invalid commit"
                     ELSE Nil]]
     /\ last' = [op |-> "buildBegin", p |-> p]
  /\ UNCHANGED <<commit, now>>

\* part_003 173-191: the "already built" return and the force branch
BuildCheckExisting(p) ==
  /\ procs[p].pc = "check"
  /\ LET q == procs[p]
          existed == ExistsIn(fs, q.t, q.short)
     IN
     /\ fs' = IF existed /\ q.force
              THEN [fs EXCEPT !.arts[q.t][q.short] = CleanForRebuild(@, now)]
              ELSE fs
     /\ procs' = [procs EXCEPT ![p].pc =
                    IF existed /\ ~q.force THEN "skipped"
                    ELSE IF existed THEN "clone"
                    ELSE "create"]
     /\ last' = [op |-> "buildCheckExisting", p |-> p]
  /\ UNCHANGED <<commit, now>>

\* part_013 185-188: dirutils.Exists(fp) in CreateTargetCommitDir
CreateCheck(p) ==
  /\ procs[p].pc = "create"
  /\ LET q == procs[p] IN
     procs' = [procs EXCEPT
                 ![p].pc = IF ExistsIn(fs, q.t, q.short) THEN "failed"
                           ELSE "mkdir",
                 ![p].err = IF ExistsIn(fs, q.t, q.short)
                            THEN "failed to create commit directory"
                            ELSE Nil]
  /\ last' = [op |-> "createCheck", p |-> p]
  /\ UNCHANGED <<commit, fs, now>>

\* part_013 189-192: the directory is made and its path returned
CreateMkdir(p) ==
  /\ procs[p].pc = "mkdir"
  /\ LET q == procs[p] IN
     \E r \in {MkdirCommitDir(fs, now, q.t, q.short)} :
       /\ fs' = r.fs
       /\ procs' = [procs EXCEPT
                      ![p].pc = IF r.ok THEN "clone" ELSE "failed",
                      ![p].created = r.ok,
                      ![p].err = IF r.ok THEN Nil
                                 ELSE "failed to create commit directory"]
  /\ last' = [op |-> "createMkdir", p |-> p]
  /\ UNCHANGED <<commit, now>>

\* part_003 214-238, part_009 128-142: the log directory, then git.Clone
\* into <commitDir>/src, which fails when src holds a repository already
BuildClone(p) ==
  /\ procs[p].pc = "clone"
  /\ LET q == procs[p]
          a == fs.arts[q.t][q.short]
          a2 == AddEntry(AddEntry(a, now, "logs"), now, "src")
          full == a.src # NoTree
          a3 == [a2 EXCEPT !.src = [rev |-> OkEnv.cloneHead, files |-> OkEnv.tree]]
     IN
     /\ fs' = [fs EXCEPT !.arts[q.t][q.short] = IF full THEN a2 ELSE a3]
     /\ procs' = [procs EXCEPT
                    ![p].pc = IF full THEN "failed" ELSE "finish",
                    ![p].cloned = ~full,
                    ![p].err = IF full THEN "failed to clone repository"
                               ELSE Nil]
  /\ last' = [op |-> "buildClone", p |-> p]
  /\ UNCHANGED <<commit, now>>

\* part_003 240-389: checkout, build command and the steps after it
BuildFinish(p) ==
  /\ procs[p].pc = "finish"
  /\ LET q == procs[p] IN
     \E r \in {Pipeline(fs.arts[q.t][q.short], now, Config[q.t], q.ref, 1, OkEnv)} :
       /\ fs' = [fs EXCEPT !.arts[q.t][q.short] = r.art]
       /\ procs' = [procs EXCEPT ![p].pc = IF r.err = Nil THEN "done"
                                           ELSE "failed",
                                 ![p].err = r.err]
  /\ last' = [op |-> "buildFinish", p |-> p]
  /\ UNCHANGED <<commit, now>>

ConcurrentRefs == {Abc1234d, Abc1234e, Abc5678f}

InitConcurrent ==
  /\ commit = Commit(Empty, Empty)
  /\ fs = EmptyFs
  /\ now = 0
  /\ last = [op |-> "init"]
  /\ procs = [p \in Procs |-> IdleProc]

NextConcurrent ==
  \/ \E p \in Procs, ref \in ConcurrentRefs, force \in BOOLEAN :
       BuildBegin(p, "t1", ref, force)
  \/ \E p \in Procs : BuildCheckExisting(p)
  \/ \E p \in Procs : CreateCheck(p)
  \/ \E p \in Procs : CreateMkdir(p)
  \/ \E p \in Procs : BuildClone(p)
  \/ \E p \in Procs : BuildFinish(p)

SpecConcurrent == InitConcurrent /\ [][NextConcurrent]_vars

(***************************************************************************)
(* Claims about builds at the same time and about commit directories       *)
(***************************************************************************)
\* p and q are two invocations without force for the same target and the
\* same commit string that both started while the commit directory was absent
SameFreshBuild(p, q) ==
  /\ p # q
  /\ procs[p].pc # "idle" /\ procs[q].pc # "idle"
  /\ procs[p].t = procs[q].t
  /\ procs[p].ref = procs[q].ref
  /\ ~procs[p].force /\ ~procs[q].force
  /\ procs[p].absent /\ procs[q].absent

\* C32: of two build invocations without force for the same target and
\* commit that start while the artifact is absent, at most one gets a commit
\* directory from CreateTargetCommitDir and goes on to clone; the other fails
\* with "already exists" or reports "already built".
C32_StrictCreateExclusive ==
  \A p, q \in DOMAIN procs :
    SameFreshBuild(p, q) => ~(procs[p].created /\ procs[q].created)

\* builds of commits that share their first seven characters, and builds of
\* the default branch while the remote HEAD is or is not the hash that was
\* resolved for it; runs by the commit strings given to build
DirRefs == {Empty, Abc1234d, Abc1234e, Abc5678}
HeadEnvs == {OkEnv, [OkEnv EXCEPT !.cloneHead = Abc5678f]}
DirTokens == {Abc1234, Abc1234d, Abc5678}

NextCommitDirs ==
  \/ Tick
  \/ DoBuild({"t1"}, DirRefs, {FALSE}, {1}, HeadEnvs)
  \/ DoRun({"t1"}, DirTokens)

SpecCommitDirs == InitStore /\ [][NextCommitDirs]_vars

\* C33: builds of two different accepted commit strings of one target go to
\* different directories, so a build of h2 right after the first build of h1
\* into a root that holds nothing else is not reported as already built.
C33_DistinctCommitsDisjoint ==
  [][( /\ last.op = "build"
       /\ last.err = Nil
       /\ ~last.existed
       /\ last.ref # Empty
       /\ DirNames(fs, last.t) = {last.short}
       /\ last'.op = "build"
       /\ last'.t = last.t
       /\ last'.ref # Empty
       /\ last'.ref # last.ref
       /\ last'.short # Empty ) =>
       /\ last'.short # last.short
       /\ ~last'.skipped]_vars

\* C34: a build without a commit argument builds the revision its directory
\* is named after: the short hash of the revision cloned and built is the
\* name of the artifact directory.
C34_DirNamesBuiltRevision ==
  ( /\ last.op = "build"
    /\ last.ref = Empty
    /\ last.ran
    /\ last.err = Nil ) =>
    Prefix(fs.arts[last.t][last.short].tar.rev, ShortHashLen) = last.short

\* C35: after a successful build of t for a commit string h, run t h resolves
\* to the directory that build made for h.
C35_RunAcceptsBuildCommit ==
  [][( /\ last.op = "build"
       /\ last.err = Nil
       /\ last.ref # Empty
       /\ last'.op = "run"
       /\ last'.t = last.t
       /\ last'.token = last.ref ) =>
       last'.dir = last.short]_vars

(***************************************************************************)
(* Claims about build recency                                              *)
(***************************************************************************)
\* the build directories of t are in g in the modification-time order they
\* have in f
SameTimeOrder(f, g, t) ==
  /\ DirNames(g, t) = DirNames(f, t)
  /\ \A m, n \in DirNames(f, t) :
       (f.arts[t][m].mtime < f.arts[t][n].mtime) <=>
         (g.arts[t][m].mtime < g.arts[t][n].mtime)

\* C36: run and list leave the modification-time order of the build
\* directories of every target as it is, and with it the directory that is
\* the latest one; only build changes it.
C36_LatestIsBuildRecency ==
  [][last'.op \in {"run", "list", "listAll"} =>
       \A t \in TargetNames :
         /\ SameTimeOrder(fs, fs', t)
         /\ LatestDir(fs', t) = LatestDir(fs, t)]_vars

(***************************************************************************)
(* Claims about the whole argument vector of run                           *)
(***************************************************************************)
\* C37: the tokens after the target are, in their order, the commit selector
\* (if one was taken), the first "--" (if there was one) and the arguments
\* handed to the binary: no token is left out.
C37_NoArgumentDropped ==
  ( /\ last.op = "runCommand"
    /\ ~last.help ) =>
    \E c \in {<<>>, <<last.commitHash>>}, d \in {<<>>, <<Dash2>>} :
      Tail(last.args) = c \o d \o last.targetArgs

(***************************************************************************)
(* Claims about the metadata file                                          *)
(***************************************************************************)
HasInfo(f, t, n) ==
  n \in DirNames(f, t) /\ "build-info.txt" \in f.arts[t][n].entries

C38_MetaStep ==
  last'.op = "build" =>
    /\ (last'.ran /\ "meta" \notin last'.postFail) =>
         HasInfo(fs', last'.t, last'.short)
    /\ ~last'.ran =>
         \A n \in DirNames(fs', last'.t) :
           HasInfo(fs', last'.t, n) => HasInfo(fs, last'.t, n)

\* C38: a build that executed the build command leaves build-info.txt in the
\* artifact directory (when the file can be created), whether the command
\* exited with 0 or not; a build that stopped before the command was executed
\* (clone, checkout, working directory, command selection) writes no
\* build-info.txt: a directory has the file afterwards only if it had it
\* before.
C38_MetadataMarksExecution == [][C38_MetaStep]_vars

\* a build whose command exited with a status other than 0 has just left
\* build-info.txt
C38_Witness ==
  /\ last.op = "build"
  /\ last.ran
  /\ last.exit # 0
  /\ last.err # Nil
  /\ HasInfo(fs, last.t, last.short)

\* a build has just stopped at the clone and its directory has no
\* build-info.txt
C38_WitnessEarly ==
  /\ last.op = "build"
  /\ last.cloned
  /\ ~last.ran
  /\ last.short \in DirNames(fs, last.t)
  /\ ~HasInfo(fs, last.t, last.short)

(***************************************************************************)
(* dirutils.CleanOldDirs                                                   *)
(***************************************************************************)
\* dirutils.SortDirEntriesByTime(dirs, false): sort.Slice is not stable, so
\* it may leave any order in which no entry is newer than its successor
SortOldestFirst(dirs, names) ==
  {p \in [1..Len(names) -> Range(names)] :
     /\ \A i, j \in 1..Len(names) : i # j => p[i] # p[j]
     /\ \A i \in 1..(Len(names) - 1) : dirs[p[i]].mtime <= dirs[p[i + 1]].mtime}

\* the count rule that removes one directory too few
OldestExcessKeepOneMore(sorted, maxDirs) ==
  IF maxDirs > 0 /\ Len(sorted) > maxDirs
  THEN SubSeq(sorted, 1, Len(sorted) - maxDirs - 1)
  ELSE <<>>

\* dir.go 139-147: dirs[0 .. len(dirs)-maxDirs-1] of the list sorted oldest
\* first
OldestExcess(sorted, maxDirs) ==
  IF maxDirs > 0 /\ Len(sorted) > maxDirs
  THEN SubSeq(sorted, 1, Len(sorted) - maxDirs)
  ELSE <<>>

\* dir.go 150-160: the directories with now.Sub(dir.ModTime) > maxAge
OldByAge(dirs, sorted, clock, maxAge) ==
  IF maxAge > 0
  THEN SelectSeq(sorted, LAMBDA n : OverAge(clock, dirs[n].mtime, maxAge))
  ELSE <<>>

\* dirutils.CleanOldDirs(<root of t>, maxDirs, maxAge) without a removal
\* failure, when the sort leaves the order sorted: the filesystem after
CleanOldDirs(f, clock, t, maxDirs, maxAge, sorted) ==
  LET f1 == RemoveBuilds(f, t, OldestExcess(sorted, maxDirs), 1, {})
  IN RemoveBuilds(f1, t, OldByAge(f.arts[t], sorted, clock, maxAge), 1, {})

\* CleanOldDirs over the orders the sort may leave
CleanOldOutcomes(f, clock, t, maxDirs, maxAge) ==
  IF ~ExistsRoot(f, t) THEN {[err |-> "failed to read directory", fs |-> f]}
  ELSE {[err |-> Nil, fs |-> CleanOldDirs(f, clock, t, maxDirs, maxAge, sorted)] :
          sorted \in SortOldestFirst(f.arts[t], ReadDir(f, t))}

\* a call of CleanOldDirs on the root of t
CallCleanOldDirs(t, maxDirs, maxAge) ==
  \E r \in CleanOldOutcomes(fs, now, t, maxDirs, maxAge) :
  /\ fs' = r.fs
  /\ last' = [op |-> "CleanOldDirs", t |-> t, maxDirs |-> maxDirs,
              maxAge |-> maxAge, err |-> r.err,
              before |-> DirNames(fs, t), distinct |-> DistinctTimes(fs, t)]
  /\ UNCHANGED <<commit, now, procs>>

\* builds of one target at different times and calls of CleanOldDirs
NextCleanOld ==
  \/ Tick
  \/ DoBuild({"t1"}, RetentionRefs, {FALSE}, {1}, {OkEnv})
  \/ \E t \in {"t1", "t3"}, k \in MaxBuildsInputs, d \in MaxAgeInputs :
       CallCleanOldDirs(t, k, d)

SpecCleanOld == InitStore /\ [][NextCleanOld]_vars

(***************************************************************************)
(* Claims about CleanOldDirs                                               *)
(***************************************************************************)
\* the filesystems a confirmed cleanup of t that is no dry run and meets no
\* failure may leave
ConfirmedCleanup(f, clock, t, k, d) ==
  {x.fs : x \in CleanupOutcomes(f, clock,
            [maxBuilds |-> k, maxAge |-> d, dryRun |-> FALSE,
             skipConfirm |-> TRUE],
            t, [answer |-> "y", rmFail |-> {}, readFail |-> {}])}

C39_PolicyStep ==
  ( /\ last'.op = "CleanOldDirs"
    /\ last'.err = Nil
    /\ last'.distinct ) =>
    /\ \A g \in ConfirmedCleanup(fs, now, last'.t, last'.maxDirs, last'.maxAge) :
         DirNames(fs', last'.t) = DirNames(g, last'.t)
    /\ DirNames(fs', last'.t) =
         DirNames(fs, last'.t) \
           ( (IF last'.maxDirs > 0
              THEN NotAmongNewest(fs, last'.t, last'.maxDirs) ELSE {})
             \cup
             (IF last'.maxAge > 0
              THEN OlderThan(fs, last'.t, now, last'.maxAge) ELSE {}) )

\* C39: on directories with pairwise distinct modification times,
\* CleanOldDirs with bounds k and a (0 for off) leaves the directories that a
\* confirmed cleanup with the same bounds leaves: those among the k newest
\* that are not more than a days old.
C39_CleanOldDirsAsCleanup == [][C39_PolicyStep]_vars

\* CleanOldDirs has just removed by count and by age and kept a directory
C39_Witness ==
  /\ last.op = "CleanOldDirs"
  /\ last.distinct
  /\ last.maxDirs > 0
  /\ last.maxAge > 0
  /\ Cardinality(last.before) = 3
  /\ Cardinality(DirNames(fs, last.t)) = 1
====
